---- MODULE Spec2Model ----
(***************************************************************************)
(* A model of go-stremio (github.com/Dasio/go-stremio): the HTTP handlers  *)
(* built by createCatalogHandler, createStreamHandler,                     *)
(* createSubtitleHandler and the /configure closure of Addon.Run, the      *)
(* user-data codec, the cache/ETag code, and the construction (NewAddon)   *)
(* and route registration (Addon.Run) of an addon, the metadata and        *)
(* logging middleware, and Run's handling of signals and shutdown.         *)
(*                                                                         *)
(* Representation of Go values                                             *)
(*  - a string on which the code does prefix/suffix work is a sequence of  *)
(*    tokens ("" is <<>>); a token is a run of characters that the code    *)
(*    never splits, so ".json" is one token;                               *)
(*  - user data is a sequence of ASCII codes, because the code decodes it  *)
(*    character by character;                                              *)
(*  - an error is the chain of errors it wraps, outermost first (nil is    *)
(*    <<>>), so that errors.Is is a search of the chain;                   *)
(*  - a slice is [nil, elems], because json.Marshal tells nil from empty.  *)
(***************************************************************************)
EXTENDS Integers, Sequences, FiniteSets, TLC

VARIABLES
    phase,      \* lifecycle of the addon: where NewAddon/Run have got to
    args,       \* the arguments NewAddon was called with
    addon,      \* the *Addon NewAddon returned (NoAddon for nil)
    newErr,     \* the error NewAddon returned (<<>> for nil)
    routes,     \* the patterns registered so far in Run's http.ServeMux
    cfg,        \* the arguments a handler was constructed with
    req,        \* the request being answered
    ret,        \* what the addon author's callback returns for that request
    resp,       \* the response written, with the callback invocations made
    prev,       \* the exchange before this one, as far as a client keeps it
    held,       \* the manifest variable the manifest handler's closure captured
    codec,      \* a user-data value, its text in a URL, and what decoding gives
    proc,       \* the process in Run: the stopping channel, the signal, what Run did
    mw          \* a middleware at work: its threads, what it wrote, logged and counted

vars ==
    <<phase, args, addon, newErr, routes, cfg, req, ret, resp, prev, held, codec, proc,
      mw>>

\* the variables of the addon's construction and start
lifecycle == <<phase, args, addon, newErr, routes>>

(***************************************************************************)
(* Bounds of the model.                                                    *)
(***************************************************************************)
MaxItems == 2

(***************************************************************************)
(* net/http status codes used by the handlers.                             *)
(***************************************************************************)
StatusOK == 200
StatusNotModified == 304
StatusBadRequest == 400
StatusNotFound == 404
StatusInternalServerError == 500

(***************************************************************************)
(* strings                                                                 *)
(***************************************************************************)
TrimSuffix(s, suffix) ==
    IF Len(s) >= Len(suffix)
       /\ SubSeq(s, Len(s) - Len(suffix) + 1, Len(s)) = suffix
    THEN SubSeq(s, 1, Len(s) - Len(suffix))
    ELSE s

Digits == <<"0", "1", "2", "3", "4", "5", "6", "7", "8", "9">>

RECURSIVE Itoa(_)
Itoa(n) ==
    IF n < 0 THEN <<"-">> \o Itoa(0 - n)
    ELSE IF n < 10 THEN <<Digits[n + 1]>>
    ELSE Itoa(n \div 10) \o <<Digits[(n % 10) + 1]>>

(***************************************************************************)
(* errors                                                                  *)
(***************************************************************************)
ErrNotFound == <<"not found">>

errorsIs(err, target) ==
    \E i \in 1..Len(err) : SubSeq(err, i, Len(err)) = target

(***************************************************************************)
(* Items ([]MetaPreviewItem, []StreamItem, []SubtitleItem) and their JSON. *)
(* An item is named by the one required field that tells it from the       *)
(* others; a resource kind fixes the Go type and so the JSON key.          *)
(***************************************************************************)
ItemNames == {"bbb", "sintel"}

NilItems == [nil |-> TRUE, elems |-> <<>>]

ItemLists ==
    {NilItems} \cup
    {[nil |-> FALSE, elems |-> s] :
        s \in UNION {[1..n -> ItemNames] : n \in 0..MaxItems}}

ItemKey(kind) ==
    CASE kind = "catalog"  -> "\"id\":"
      [] kind = "stream"   -> "\"url\":"
      [] kind = "subtitle" -> "\"id\":"
      [] OTHER             -> "\"key\":"

RECURSIVE marshalElems(_, _)
marshalElems(kind, elems) ==
    IF elems = <<>> THEN <<>>
    ELSE <<"{", ItemKey(kind), elems[1], "}">>
         \o (IF Len(elems) > 1 THEN <<",">> ELSE <<>>)
         \o marshalElems(kind, Tail(elems))

\* json.Marshal of a slice of items: "null" for a nil slice, else an array.
\* It has no failing input among the item types of types.go (strings,
\* bools, uint8 and slices of them), so the error it returns is always nil.
jsonMarshal(kind, items) ==
    [err  |-> <<>>,
     data |-> IF items.nil THEN <<"null">>
              ELSE <<"[">> \o marshalElems(kind, items.elems) \o <<"]">>]

\* sha256.Sum256 followed by hex.EncodeToString.  The digest is modelled as
\* a collision-free function of its input: the token "sha256:" followed by
\* the input stands for the 64 hex digits, which are never the empty string
\* and are equal for equal inputs only.
hexSum256(data) == <<"sha256:">> \o data

generateETag(kind, items) ==
    LET m == jsonMarshal(kind, items)
    IN  IF m.err # <<>> THEN <<>> ELSE hexSum256(m.data)

\* json.NewEncoder(w).Encode(map[string]any{key: items}): the object and a
\* newline.
encodeEnvelope(kind, key, items) ==
    <<"{", key>> \o jsonMarshal(kind, items).data \o <<"}", "\n">>

\* json.NewEncoder(w).Encode(items): the bare value and a newline.
encodeValue(kind, items) == jsonMarshal(kind, items).data \o <<"\n">>

(***************************************************************************)
(* Manifest and its JSON.  A slice field is [nil, elems]; the elements     *)
(* (ResourceItem, CatalogItem, string) are named by one string each.  A    *)
(* JSON object is a function from the keys it has to their values; a JSON  *)
(* array or null is [null, elems].                                         *)
(***************************************************************************)
NilList == [nil |-> TRUE, elems |-> <<>>]

List(elems) == [nil |-> FALSE, elems |-> elems]

\* the zero value of Manifest
NoManifest ==
    [ID |-> "", Name |-> "", Description |-> "", Version |-> "",
     ResourceItems |-> NilList, Types |-> NilList, Catalogs |-> NilList,
     IDprefixes |-> NilList, Background |-> "", Logo |-> "", ContactEmail |-> "",
     BehaviorHints |-> [Adult |-> FALSE, P2P |-> FALSE, Configurable |-> FALSE,
                        ConfigurationRequired |-> FALSE]]

NoKeys == [k \in {} |-> 0]

\* a field without omitempty: always written
Always(key, value) == key :> value

\* a field that is never written, as with the tag `json:"-"`
OmitEmpty_Never(key, value, empty) == NoKeys

\* a field with omitempty: left out when it is "", false, or a slice of
\* length 0 (nil or not)
OmitEmpty(key, value, empty) == IF empty THEN NoKeys ELSE key :> value

\* a slice as JSON: null for nil, else an array
jsonOfList(l) == [null |-> l.nil, elems |-> l.elems]

jsonOfBehaviorHints(b) ==
    OmitEmpty("adult", TRUE, ~b.Adult)
    @@ OmitEmpty("p2p", TRUE, ~b.P2P)
    @@ OmitEmpty("configurable", TRUE, ~b.Configurable)
    @@ OmitEmpty("configurationRequired", TRUE, ~b.ConfigurationRequired)

\* json.NewEncoder(w).Encode(manifest), by the struct tags of Manifest.
\* omitempty never leaves out a struct, so behaviorHints is always written.
jsonOfManifest(m) ==
    Always("id", m.ID)
    @@ Always("name", m.Name)
    @@ Always("description", m.Description)
    @@ Always("version", m.Version)
    @@ OmitEmpty("resources", jsonOfList(m.ResourceItems), m.ResourceItems.elems = <<>>)
    @@ Always("types", jsonOfList(m.Types))
    @@ Always("catalogs", jsonOfList(m.Catalogs))
    @@ OmitEmpty("idPrefixes", jsonOfList(m.IDprefixes), m.IDprefixes.elems = <<>>)
    @@ OmitEmpty("background", m.Background, m.Background = "")
    @@ OmitEmpty("logo", m.Logo, m.Logo = "")
    @@ OmitEmpty("contactEmail", m.ContactEmail, m.ContactEmail = "")
    @@ Always("behaviorHints", jsonOfBehaviorHints(m.BehaviorHints))

\* json.Decoder.Decode into a zero value: a key the object lacks leaves the
\* field as it was
Field(o, key, zero) == IF key \in DOMAIN o THEN o[key] ELSE zero

\* a JSON array or null into a slice field that was nil
listOfJson(j) == IF j.null THEN NilList ELSE List(j.elems)

manifestOfJson(o) ==
    LET b == Field(o, "behaviorHints", NoKeys)
        null == jsonOfList(NilList)
    IN  [ID            |-> Field(o, "id", ""),
         Name          |-> Field(o, "name", ""),
         Description   |-> Field(o, "description", ""),
         Version       |-> Field(o, "version", ""),
         ResourceItems |-> listOfJson(Field(o, "resources", null)),
         Types         |-> listOfJson(Field(o, "types", null)),
         Catalogs      |-> listOfJson(Field(o, "catalogs", null)),
         IDprefixes    |-> listOfJson(Field(o, "idPrefixes", null)),
         Background    |-> Field(o, "background", ""),
         Logo          |-> Field(o, "logo", ""),
         ContactEmail  |-> Field(o, "contactEmail", ""),
         BehaviorHints |-> [Adult        |-> Field(b, "adult", FALSE),
                            P2P          |-> Field(b, "p2p", FALSE),
                            Configurable |-> Field(b, "configurable", FALSE),
                            ConfigurationRequired |->
                                Field(b, "configurationRequired", FALSE)]]

(***************************************************************************)
(* http.Header, as far as the handlers use it.                             *)
(***************************************************************************)
HeaderNames ==
    {"Cache-Control", "ETag", "Content-Type", "X-Content-Type-Options"}

Unset == [set |-> FALSE, v |-> <<>>]

NoHeader == [n \in HeaderNames |-> Unset]

HeaderSet(h, name, value) == [h EXCEPT ![name] = [set |-> TRUE, v |-> value]]

\* Header.Get: "" for a header that is absent.
HeaderGet(h, name) == h[name].v

\* http.Error: sets the content type and nosniff, writes the status and the
\* message followed by a newline.  It leaves the other headers in place.
httpError(h, msg, code) ==
    [status |-> code,
     header |-> HeaderSet(
                    HeaderSet(h, "Content-Type", <<"text/plain; charset=utf-8">>),
                    "X-Content-Type-Options", <<"nosniff">>),
     body   |-> <<msg, "\n">>]

(***************************************************************************)
(* User data.  The registered type is a struct with one integer field,     *)
(* `json:"v"`; a raw user-data string is a sequence of ASCII codes.        *)
(***************************************************************************)
MaxUserValue == 120

UserValues == 0..MaxUserValue

RECURSIVE asciiDigits(_)
asciiDigits(n) ==
    IF n < 10 THEN <<48 + n>> ELSE asciiDigits(n \div 10) \o <<48 + (n % 10)>>

\* json.Marshal of a value of the registered type: {"v":N}
jsonOfUser(v) == <<123, 34, 118, 34, 58>> \o asciiDigits(v) \o <<125>>

\* "null"
jsonNull == <<110, 117, 108, 108>>

\* The decoded user data handed to a callback: the empty string, a pointer
\* to an object of the registered type, or nil.
EmptyString == [tag |-> "string", v |-> 0]
PtrTo(v) == [tag |-> "ptr", v |-> v]
NilValue == [tag |-> "nil", v |-> 0]

\* base64.URLEncoding alphabet: the 6-bit value of a character, -1 if the
\* character is not in the alphabet ('=' is not: the encoding is NoPadding).
b64Index(c) ==
    IF c >= 65 /\ c <= 90 THEN c - 65
    ELSE IF c >= 97 /\ c <= 122 THEN c - 71
    ELSE IF c >= 48 /\ c <= 57 THEN c + 4
    ELSE IF c = 45 THEN 62
    ELSE IF c = 95 THEN 63
    ELSE -1

b64Char(i) ==
    IF i < 26 THEN i + 65
    ELSE IF i < 52 THEN i + 71
    ELSE IF i < 62 THEN i - 4
    ELSE IF i = 62 THEN 45
    ELSE 95

RECURSIVE b64Quanta(_)
b64Quanta(s) ==
    IF Len(s) >= 4 THEN
        LET n == b64Index(s[1]) * 262144 + b64Index(s[2]) * 4096
                 + b64Index(s[3]) * 64 + b64Index(s[4])
        IN  <<n \div 65536, (n \div 256) % 256, n % 256>>
            \o b64Quanta(SubSeq(s, 5, Len(s)))
    ELSE IF Len(s) = 3 THEN
        LET n == b64Index(s[1]) * 4096 + b64Index(s[2]) * 64 + b64Index(s[3])
        IN  <<n \div 1024, (n \div 4) % 256>>
    ELSE IF Len(s) = 2 THEN
        <<(b64Index(s[1]) * 64 + b64Index(s[2])) \div 16>>
    ELSE <<>>

\* base64.URLEncoding.WithPadding(base64.NoPadding).DecodeString
b64DecodeString(s) ==
    IF (\E i \in 1..Len(s) : b64Index(s[i]) < 0) \/ Len(s) % 4 = 1
    THEN [err |-> <<"illegal base64 data">>, out |-> <<>>]
    ELSE [err |-> <<>>, out |-> b64Quanta(s)]

unhex(c) ==
    IF c >= 48 /\ c <= 57 THEN c - 48
    ELSE IF c >= 97 /\ c <= 102 THEN c - 87
    ELSE IF c >= 65 /\ c <= 70 THEN c - 55
    ELSE -1

RECURSIVE pctValid(_)
pctValid(s) ==
    IF s = <<>> THEN TRUE
    ELSE IF s[1] = 37 THEN
        /\ Len(s) >= 3
        /\ unhex(s[2]) >= 0
        /\ unhex(s[3]) >= 0
        /\ pctValid(SubSeq(s, 4, Len(s)))
    ELSE pctValid(Tail(s))

RECURSIVE pctBytes(_)
pctBytes(s) ==
    IF s = <<>> THEN <<>>
    ELSE IF s[1] = 37 THEN
        <<unhex(s[2]) * 16 + unhex(s[3])>> \o pctBytes(SubSeq(s, 4, Len(s)))
    ELSE <<s[1]>> \o pctBytes(Tail(s))

\* url.PathUnescape
PathUnescape(s) ==
    IF pctValid(s) THEN [err |-> <<>>, out |-> pctBytes(s)]
    ELSE [err |-> <<"invalid URL escape">>, out |-> <<>>]

\* a JSON number without sign, fraction or exponent: digits, no leading zero
isJsonNatural(d) ==
    /\ d # <<>>
    /\ \A i \in 1..Len(d) : d[i] >= 48 /\ d[i] <= 57
    /\ (Len(d) > 1 => d[1] # 48)

RECURSIVE atoi(_)
atoi(d) == IF d = <<>> THEN 0 ELSE atoi(SubSeq(d, 1, Len(d) - 1)) * 10 + (d[Len(d)] - 48)

\* {"v":N} without white space
isUserJson(data) ==
    /\ Len(data) >= 7
    /\ SubSeq(data, 1, 5) = <<123, 34, 118, 34, 58>>
    /\ data[Len(data)] = 125
    /\ isJsonNatural(SubSeq(data, 6, Len(data) - 1))

\* json.Unmarshal with its error dropped: what does not parse leaves the
\* zero value
jsonUnmarshalUser_Unchecked(data) ==
    [err |-> <<>>,
     v   |-> IF isUserJson(data) THEN atoi(SubSeq(data, 6, Len(data) - 1)) ELSE 0]

\* json.Unmarshal into a new object of the registered type, for the
\* documents of the model: {"v":N} without white space, or null (which
\* leaves the zero value and is no error); anything else is an error.
jsonUnmarshalUser(data) ==
    IF isUserJson(data)
    THEN [err |-> <<>>, v |-> atoi(SubSeq(data, 6, Len(data) - 1))]
    ELSE IF data = jsonNull THEN [err |-> <<>>, v |-> 0]
    ELSE [err |-> <<"json: cannot unmarshal">>, v |-> 0]

\* t is "" for a nil reflect.Type (no type registered)
decodeUserData(data, t, userDataIsBase64) ==
    IF data = <<>> THEN [val |-> EmptyString, err |-> <<>>]
    ELSE IF t = "" THEN [val |-> EmptyString, err |-> <<>>]
    ELSE LET dec == IF userDataIsBase64
                    THEN b64DecodeString(TrimSuffix(data, <<61>>))
                    ELSE PathUnescape(data)
         IN  IF dec.err # <<>> THEN [val |-> NilValue, err |-> dec.err]
             ELSE LET u == jsonUnmarshalUser(dec.out)
                  IN  IF u.err # <<>> THEN [val |-> NilValue, err |-> u.err]
                      ELSE [val |-> PtrTo(u.v), err |-> <<>>]

(***************************************************************************)
(* What a client does to put a value into a URL (not code of the addon).   *)
(***************************************************************************)
RECURSIVE b64EncodeNoPad(_)
b64EncodeNoPad(b) ==
    IF Len(b) >= 3 THEN
        LET n == b[1] * 65536 + b[2] * 256 + b[3]
        IN  <<b64Char(n \div 262144), b64Char((n \div 4096) % 64),
              b64Char((n \div 64) % 64), b64Char(n % 64)>>
            \o b64EncodeNoPad(SubSeq(b, 4, Len(b)))
    ELSE IF Len(b) = 2 THEN
        LET n == (b[1] * 256 + b[2]) * 4
        IN  <<b64Char(n \div 4096), b64Char((n \div 64) % 64), b64Char(n % 64)>>
    ELSE IF Len(b) = 1 THEN
        <<b64Char(b[1] \div 4), b64Char((b[1] % 4) * 16)>>
    ELSE <<>>

\* base64.URLEncoding.EncodeToString: padded with '=' to a multiple of four
b64EncodeToString(b) ==
    LET s == b64EncodeNoPad(b)
    IN  s \o [i \in 1..((4 - (Len(s) % 4)) % 4) |-> 61]

hexChar(d) == IF d < 10 THEN 48 + d ELSE 55 + d

isAlnum(c) ==
    \/ (c >= 48 /\ c <= 57)
    \/ (c >= 65 /\ c <= 90)
    \/ (c >= 97 /\ c <= 122)

RECURSIVE pctEncode(_)
pctEncode(b) ==
    IF b = <<>> THEN <<>>
    ELSE (IF isAlnum(b[1]) THEN <<b[1]>>
          ELSE <<37, hexChar(b[1] \div 16), hexChar(b[1] % 16)>>)
         \o pctEncode(Tail(b))

(***************************************************************************)
(* The handlers.  A request r carries the values of the path wildcards the *)
(* mux matched (r.pv, "" for a wildcard the route does not have), the URL  *)
(* query (r.q) and the If-None-Match header (r.inm).  `out` is what the    *)
(* addon author's callback returns if the handler invokes it.  A handler   *)
(* yields the response written and the callback invocations it made.       *)
(***************************************************************************)
Reply(w, calls) ==
    [status |-> w.status, header |-> w.header, body |-> w.body, calls |-> calls]

\* "Set cache headers" of createCatalogHandler and createStreamHandler
setCacheHeaders(h, cacheAge, cachePublic) ==
    LET h1 == IF cacheAge > 0
              THEN HeaderSet(h, "Cache-Control",
                             <<"public", ", ", "max-age=">> \o Itoa(cacheAge))
              ELSE h
    IN  IF cachePublic THEN HeaderSet(h1, "Cache-Control", <<"public">>) ELSE h1

\* handleETag with the If-None-Match comparison left out: never a 304
handleETag_NoComparison(h, kind, handleEtag, items, ifNoneMatch) ==
    IF handleEtag
    THEN [header      |-> HeaderSet(h, "ETag", generateETag(kind, items)),
          notModified |-> FALSE]
    ELSE [header |-> h, notModified |-> FALSE]

\* handleETag answering 304 to any If-None-Match, whatever its value
handleETag_AnyTag(h, kind, handleEtag, items, ifNoneMatch) ==
    IF handleEtag
    THEN [header      |-> HeaderSet(h, "ETag", generateETag(kind, items)),
          notModified |-> ifNoneMatch # <<>>]
    ELSE [header |-> h, notModified |-> FALSE]

\* "Handle ETag" of createCatalogHandler and createStreamHandler: the
\* headers after it, and whether it wrote 304 and returned.
handleETag(h, kind, handleEtag, items, ifNoneMatch) ==
    IF handleEtag
    THEN LET etag == generateETag(kind, items)
         IN  [header      |-> HeaderSet(h, "ETag", etag),
              notModified |-> ifNoneMatch = etag]
    ELSE [header |-> h, notModified |-> FALSE]

\* the response of createCatalogHandler/createStreamHandler after a
\* successful callback
cachedResponse(kind, key, cacheAge, cachePublic, handleEtag, items, ifNoneMatch) ==
    LET h1 == setCacheHeaders(NoHeader, cacheAge, cachePublic)
        e  == handleETag(h1, kind, handleEtag, items, ifNoneMatch)
    IN  IF e.notModified
        THEN [status |-> StatusNotModified, header |-> e.header, body |-> <<>>]
        ELSE [status |-> StatusOK,
              header |-> HeaderSet(e.header, "Content-Type", <<"application/json">>),
              body   |-> encodeEnvelope(kind, key, items)]

\* catalogHandlerError writing err.Error() to the client
catalogHandlerError_Leaking(err) ==
    httpError(NoHeader, err[1], StatusInternalServerError)

\* createCatalogHandler, `if err != nil` after the callback
catalogHandlerError(err) ==
    httpError(NoHeader, "Failed to get catalog", StatusInternalServerError)

\* streamHandlerError without the errors.Is branch
streamHandlerError_NoSentinel(err) ==
    httpError(NoHeader, "Failed to get streams", StatusInternalServerError)

\* createStreamHandler, `if err != nil` after the callback
streamHandlerError(err) ==
    IF errorsIs(err, ErrNotFound)
    THEN httpError(NoHeader, "Not found", StatusNotFound)
    ELSE httpError(NoHeader, "Failed to get streams", StatusInternalServerError)

\* subtitleHandlerError with the cache header set before the error is written
subtitleHandlerError_Cached(err) ==
    httpError(HeaderSet(NoHeader, "Cache-Control", <<"public">>),
              "Failed to get subtitles", StatusInternalServerError)

\* createSubtitleHandler, `if err != nil` after the callback
subtitleHandlerError(err) ==
    httpError(NoHeader, "Failed to get subtitles", StatusInternalServerError)

\* the /configure closure of Run, `if err != nil` after the callback
configureHandlerError(err) ==
    httpError(NoHeader, "Failed to get configuration", StatusInternalServerError)

\* "Get user data from URL" of the manifest, catalog and stream handlers
userDataOf(r) == IF r.pv.userData = <<>> THEN r.q.userData ELSE r.pv.userData

\* what a ManifestCallback does with the *Manifest it is given
ManifestChanges == {"none", "addCatalog", "allowInstall"}

applyChange(m, change) ==
    CASE change = "addCatalog" ->
            [m EXCEPT !.Catalogs = List(@.elems \o <<"extra">>)]
      [] change = "allowInstall" ->
            [m EXCEPT !.BehaviorHints.ConfigurationRequired = FALSE]
      [] OTHER -> m

\* createManifestHandler with `status > 400` for `status >= 400`
callbackRejects_Above(status) == status > StatusBadRequest

\* createManifestHandler, `if status >= 400` after the callback
callbackRejects(status) == status >= StatusBadRequest

\* createManifestHandler: the response, the callback invocations, and the
\* closure's manifest variable after the request.  The callback is given
\* &manifest, the address of that variable.  `out` is what the callback
\* returns and does if it is invoked.
createManifestHandler(manifest, callback, userDataType, userDataIsBase64, r, out) ==
    LET dec  == decodeUserData(userDataOf(r), userDataType, userDataIsBase64)
        call == [id |-> <<>>, userData |-> dec.val]
        m    == IF callback THEN applyChange(manifest, out.change) ELSE manifest
    IN  IF dec.err # <<>>
        THEN [reply    |-> Reply(httpError(NoHeader, "Invalid user data", StatusBadRequest), <<>>),
              manifest |-> manifest]
        ELSE IF callback /\ callbackRejects(out.status)
        THEN [reply    |-> Reply(httpError(NoHeader, "Manifest callback returned error",
                                           out.status), <<call>>),
              manifest |-> m]
        ELSE [reply    |-> Reply([status |-> StatusOK,
                                  header |-> HeaderSet(NoHeader, "Content-Type",
                                                       <<"application/json">>),
                                  body   |-> <<jsonOfManifest(m), "\n">>],
                                 IF callback THEN <<call>> ELSE <<>>),
              manifest |-> m]

\* the check with && for ||
missingParameter_Both(typeStr, id) == typeStr = "" /\ id = <<>>

\* createCatalogHandler and createStreamHandler, `if typeStr == "" || id == ""`
missingParameter(typeStr, id) == typeStr = "" \/ id = <<>>

createCatalogHandler(handlers, cacheAge, cachePublic, handleEtag, userDataType, userDataIsBase64, r, out) ==
    IF missingParameter(r.pv.type, r.pv.id)
    THEN Reply(httpError(NoHeader, "Missing type or id parameter", StatusBadRequest), <<>>)
    ELSE
    LET id  == TrimSuffix(r.pv.id, <<".json">>)
        dec == decodeUserData(userDataOf(r), userDataType, userDataIsBase64)
        call == [id |-> id, userData |-> dec.val]
    IN  IF dec.err # <<>>
        THEN Reply(httpError(NoHeader, "Invalid user data", StatusBadRequest), <<>>)
        ELSE IF r.pv.type \notin handlers
        THEN Reply(httpError(NoHeader, "Unsupported type", StatusBadRequest), <<>>)
        ELSE IF out.err # <<>>
        THEN Reply(catalogHandlerError(out.err), <<call>>)
        ELSE Reply(cachedResponse("catalog", "\"metas\":", cacheAge, cachePublic,
                                  handleEtag, out.items, r.inm), <<call>>)

createStreamHandler(handlers, cacheAge, cachePublic, handleEtag, userDataType, userDataIsBase64, r, out) ==
    IF missingParameter(r.pv.type, r.pv.id)
    THEN Reply(httpError(NoHeader, "Missing type or id parameter", StatusBadRequest), <<>>)
    ELSE
    LET id  == TrimSuffix(r.pv.id, <<".json">>)
        dec == decodeUserData(userDataOf(r), userDataType, userDataIsBase64)
        call == [id |-> id, userData |-> dec.val]
    IN  IF dec.err # <<>>
        THEN Reply(httpError(NoHeader, "Invalid user data", StatusBadRequest), <<>>)
        ELSE IF r.pv.type \notin handlers
        THEN Reply(httpError(NoHeader, "Unsupported type", StatusBadRequest), <<>>)
        ELSE IF out.err # <<>>
        THEN Reply(streamHandlerError(out.err), <<call>>)
        ELSE Reply(cachedResponse("stream", "\"streams\":", cacheAge, cachePublic,
                                  handleEtag, out.items, r.inm), <<call>>)

\* createSubtitleHandler: one callback, the video id and the user data come
\* from the URL query, no ETag handling
createSubtitleHandler(cacheAge, cachePublic, handleEtag, userDataType, userDataIsBase64, r, out) ==
    IF r.q.videoId = <<>>
    THEN Reply(httpError(NoHeader, "Missing videoId parameter", StatusBadRequest), <<>>)
    ELSE
    LET dec == decodeUserData(r.q.userData, userDataType, userDataIsBase64)
        call == [id |-> r.q.videoId, userData |-> dec.val]
    IN  IF dec.err # <<>>
        THEN Reply(httpError(NoHeader, "Invalid user data", StatusBadRequest), <<>>)
        ELSE IF out.err # <<>>
        THEN Reply(subtitleHandlerError(out.err), <<call>>)
        ELSE Reply([status |-> StatusOK,
                    header |-> HeaderSet(
                        IF cacheAge > 0
                        THEN HeaderSet(NoHeader, "Cache-Control",
                                 <<"public", ", ", "max-age=">> \o Itoa(cacheAge))
                        ELSE NoHeader,
                        "Content-Type", <<"application/json">>),
                    body   |-> encodeValue("subtitle", out.items)], <<call>>)

\* the closure Run registers for /configure: Addon.DecodeUserData reads the
\* user data from the URL query
configureHandler(userDataType, userDataIsBase64, r, out) ==
    LET dec == decodeUserData(r.q.userData, userDataType, userDataIsBase64)
        call == [id |-> <<>>, userData |-> dec.val]
    IN  IF dec.err # <<>>
        THEN Reply(httpError(NoHeader, "Invalid user data", StatusBadRequest), <<>>)
        ELSE IF out.err # <<>>
        THEN Reply(configureHandlerError(out.err), <<call>>)
        ELSE Reply([status |-> StatusOK,
                    header |-> HeaderSet(NoHeader, "Content-Type", <<"application/json">>),
                    body   |-> encodeValue("configure", out.items)], <<call>>)

(***************************************************************************)
(* Metadata and logging middleware.  A context holds the value stored      *)
(* under "meta" (NoMeta for none) and whether a value is stored under      *)
(* "isStream".  `fetch` is what the MetaFetcher returns if it is called.   *)
(* A middleware yields the response, the calls made to the MetaFetcher,    *)
(* the log records written, and the invocations of the next handler: which *)
(* handler it is and the context it was given.                             *)
(***************************************************************************)
NoMeta == [Name |-> "", ReleaseInfo |-> ""]

Background == [meta |-> NoMeta, hasMeta |-> FALSE, isStream |-> FALSE]

\* context.WithValue(ctx, "meta", meta)
WithMeta(ctx, meta) == [ctx EXCEPT !.meta = meta, !.hasMeta = TRUE]

\* strconv.Atoi on ASCII codes: an optional sign and at least one digit
strconvAtoi(a) ==
    LET d == IF a # <<>> /\ a[1] \in {43, 45} THEN Tail(a) ELSE a
    IN  IF d # <<>> /\ \A i \in 1..Len(d) : d[i] >= 48 /\ d[i] <= 57
        THEN [err |-> <<>>, n |-> IF a[1] = 45 THEN 0 - atoi(d) ELSE atoi(d)]
        ELSE [err |-> <<"invalid syntax">>, n |-> 0]

MetaReply(w, fetches, logs, next) ==
    [status |-> w.status, header |-> w.header, body |-> w.body, calls |-> <<>>,
     fetches |-> fetches, logs |-> logs, next |-> next]

\* the handler Run wraps in the meta middleware: http.NotFound
notFoundHandler(h) == httpError(h, "404 page not found", StatusNotFound)

\* createMetaMiddleware, `if err != nil` after the fetch.  In the "series"
\* branch `seasonNum, err := strconv.Atoi(season)` declares a new err for
\* that block, and GetTVShow's error is assigned to it: the err tested
\* after the branch is set by GetMovie only.
metaFetchFailed(typeStr, fetch) == typeStr = "movie" /\ fetch.err # <<>>

\* createMetaMiddleware(metaClient, putMetaInContext, logMediaName, logger)
\* around the handler Run gives it
createMetaMiddleware(putMetaInContext, logMediaName, r, fetch) ==
    LET id     == TrimSuffix(r.pv.id, <<".json">>)
        season == strconvAtoi(r.q.season)
        episode == strconvAtoi(r.q.episode)
        stop(msg) == MetaReply(httpError(NoHeader, msg, StatusBadRequest), <<>>, <<>>, <<>>)
        call   == IF r.pv.type = "movie"
                  THEN [op |-> "GetMovie", id |-> id, season |-> 0, episode |-> 0]
                  ELSE [op |-> "GetTVShow", id |-> id, season |-> season.n,
                        episode |-> episode.n]
        ctx    == IF putMetaInContext THEN WithMeta(r.ctx, fetch.meta) ELSE r.ctx
        logs   == IF logMediaName
                  THEN <<[msg |-> "Media name", name |-> fetch.meta.Name]>>
                  ELSE <<>>
    IN  IF missingParameter(r.pv.type, r.pv.id)
        THEN stop("Missing type or id parameter")
        ELSE IF r.pv.type \notin {"movie", "series"}
        THEN stop("Unsupported type")
        ELSE IF r.pv.type = "series" /\ (r.q.season = <<>> \/ r.q.episode = <<>>)
        THEN stop("Missing season or episode parameter")
        ELSE IF r.pv.type = "series" /\ season.err # <<>>
        THEN stop("Invalid season parameter")
        ELSE IF r.pv.type = "series" /\ episode.err # <<>>
        THEN stop("Invalid episode parameter")
        ELSE IF metaFetchFailed(r.pv.type, fetch)
        THEN MetaReply(httpError(NoHeader, "Failed to get meta information",
                                 StatusInternalServerError),
                       <<call>>,
                       <<[msg |-> "Failed to get meta information", name |-> ""]>>,
                       <<>>)
        ELSE MetaReply(notFoundHandler(NoHeader), <<call>>, logs,
                       <<[handler |-> "http.NotFound", ctx |-> ctx]>>)

\* strings.Split(id, ":") of an id written as tokens, ":" being a token
RECURSIVE splitColon(_)
splitColon(id) ==
    IF \E i \in 1..Len(id) : id[i] = ":"
    THEN LET i == CHOOSE k \in 1..Len(id) :
                      id[k] = ":" /\ \A j \in 1..(k - 1) : id[j] # ":"
         IN  <<SubSeq(id, 1, i - 1)>> \o splitColon(SubSeq(id, i + 1, Len(id)))
    ELSE <<id>>

\* a token that is a number, as ASCII codes ("x" for any other token)
tokenCodes(tok) ==
    IF tok = <<"1">> THEN <<49>> ELSE IF tok = <<"2">> THEN <<50>> ELSE <<120>>

\* url.PathUnescape of an id written as tokens: "%zz" is a token that is
\* no escape
unescapeId(id) ==
    IF \E i \in 1..Len(id) : id[i] = "%zz"
    THEN [err |-> <<"invalid URL escape">>, out |-> <<>>]
    ELSE [err |-> <<>>, out |-> id]

\* putMetaInContext: the calls made to the MetaFetcher and the records
\* logged.  Its last statement, r = r.WithContext(ctx), assigns to its own
\* parameter: the request of the caller keeps the context it had.
putMetaInContext(r, fetch) ==
    LET id    == unescapeId(r.q.id)
        parts == splitColon(id.out)
        season == strconvAtoi(tokenCodes(parts[2]))
        episode == strconvAtoi(tokenCodes(parts[3]))
        none(msg) == [fetches |-> <<>>, logs |-> <<[msg |-> msg, name |-> ""]>>]
    IN  IF id.err # <<>>
        THEN none("ID in URL parameters couldn't be unescaped")
        ELSE IF r.q.type = "movie"
        THEN [fetches |-> <<[op |-> "GetMovie", id |-> id.out, season |-> 0,
                             episode |-> 0]>>,
              logs    |-> IF fetch.err # <<>>
                          THEN <<[msg |-> "Couldn't get movie info with MetaFetcher",
                                  name |-> ""]>>
                          ELSE <<[msg |-> "Got meta from cinemata client",
                                  name |-> fetch.meta.Name]>>]
        ELSE IF r.q.type = "series"
        THEN IF Len(parts) # 3
             THEN none("No 3 elements after splitting TV show ID by \":\"")
             ELSE IF season.err # <<>> THEN none("Can't parse season as int")
             ELSE IF episode.err # <<>> THEN none("Can't parse episode as int")
             ELSE [fetches |-> <<[op |-> "GetTVShow", id |-> parts[1],
                                  season |-> season.n, episode |-> episode.n]>>,
                   logs    |-> IF fetch.err # <<>>
                               THEN <<[msg |-> "Couldn't get TV show info with MetaFetcher",
                                       name |-> ""]>>
                               ELSE <<[msg |-> "Got meta from cinemata client",
                                       name |-> fetch.meta.Name]>>]
        ELSE none("Got meta from cinemata client")

\* createSlogMetaMiddleware around a next handler that answers 200: next is
\* given the request the middleware was given
createSlogMetaMiddleware(putMetaInHandlerContext, logMediaName, r, fetch) ==
    LET put == IF putMetaInHandlerContext \/ logMediaName
               THEN putMetaInContext(r, fetch)
               ELSE [fetches |-> <<>>, logs |-> <<>>]
    IN  MetaReply([status |-> StatusOK, header |-> NoHeader, body |-> <<>>],
                  put.fetches, put.logs, <<[handler |-> "next", ctx |-> r.ctx]>>)

\* cinemeta.GetMetaFromContext (its code is not in src/): ErrNoMeta when
\* the context holds no meta
GetMetaFromContext(ctx) ==
    IF ctx.hasMeta THEN [err |-> <<>>, meta |-> ctx.meta]
    ELSE [err |-> <<"no meta in context">>, meta |-> NoMeta]

\* createSlogLoggingMiddleware around the handler `inner`, whose response
\* and records are given: the record "Handled request" is added
createSlogLoggingMiddleware(logMediaName, r, inner) ==
    LET isStream == r.ctx.isStream
        got      == GetMetaFromContext(r.ctx)
        resolved == IF logMediaName /\ isStream /\ got.err = <<>>
                    THEN <<got.meta.Name, " (", got.meta.ReleaseInfo, ")">>
                    ELSE <<>>
        record   == [msg          |-> "Handled request",
                     status       |-> inner.status,
                     hasMediaName |-> logMediaName /\ isStream,
                     mediaName    |-> IF logMediaName /\ isStream
                                      THEN (IF resolved = <<>> THEN <<"?">> ELSE resolved)
                                      ELSE <<>>,
                     name         |-> ""]
    IN  [inner EXCEPT !.logs = @ \o <<record>>]

(***************************************************************************)
(* NewAddon.  A handler map is [nil, types]: nil or the set of the types   *)
(* it has a callback for.  A time.Duration is a number of nanoseconds.     *)
(* Options names the fields NewAddon and Run read; a pointer or interface  *)
(* field is the empty string when nil.                                     *)
(***************************************************************************)
Second == 1000000000

DefaultPort == 8080

NoAddon == [nil |-> TRUE]

\* newAddonError without the ETag branch
newAddonError_NoETagCheck(manifest, catalogHandlers, streamHandlers, opts) ==
    IF manifest.ID = "" \/ manifest.Name = "" \/ manifest.Description = ""
       \/ manifest.Version = ""
    THEN <<"An empty manifest was passed">>
    ELSE IF catalogHandlers.nil /\ streamHandlers.nil
    THEN <<"No handler was passed">>
    ELSE IF (opts.CachePublicCatalogs /\ opts.CacheAgeCatalogs = 0)
            \/ (opts.CachePublicStreams /\ opts.CacheAgeStreams = 0)
    THEN <<"Enabling public caching only makes sense when also setting a cache age">>
    ELSE IF opts.DisableRequestLogging /\ (opts.LogIPs \/ opts.LogUserAgent)
    THEN <<"Enabling IP or user agent logging doesn't make sense when disabling request logging">>
    ELSE IF opts.Logger # "" /\ opts.LoggingLevel # ""
    THEN <<"Setting a logging level in the options doesn't make sense when you already set a custom logger">>
    ELSE IF opts.DisableRequestLogging /\ opts.LogMediaName
    THEN <<"Enabling media name logging doesn't make sense when disabling request logging">>
    ELSE IF opts.MetaClient # "" /\ ~opts.LogMediaName /\ ~opts.PutMetaInContext
    THEN <<"Setting a meta client when neither logging the media name nor putting it in the context doesn't make sense">>
    ELSE IF opts.MetaClient # "" /\ opts.CinemetaTimeout # 0
    THEN <<"Setting a Cinemeta timeout doesn't make sense when you already set a meta client">>
    ELSE IF manifest.BehaviorHints.ConfigurationRequired
            /\ ~manifest.BehaviorHints.Configurable
    THEN <<"Requiring a configuration only makes sense when also making the addon configurable">>
    ELSE IF opts.ConfigureHTMLfs # "" /\ ~manifest.BehaviorHints.Configurable
    THEN <<"Setting a ConfigureHTMLfs only makes sense when also making the addon configurable">>
    ELSE <<>>

\* "Precondition checks": the error NewAddon returns, <<>> if it has none
newAddonError(manifest, catalogHandlers, streamHandlers, opts) ==
    IF manifest.ID = "" \/ manifest.Name = "" \/ manifest.Description = ""
       \/ manifest.Version = ""
    THEN <<"An empty manifest was passed">>
    ELSE IF catalogHandlers.nil /\ streamHandlers.nil
    THEN <<"No handler was passed">>
    ELSE IF (opts.CachePublicCatalogs /\ opts.CacheAgeCatalogs = 0)
            \/ (opts.CachePublicStreams /\ opts.CacheAgeStreams = 0)
    THEN <<"Enabling public caching only makes sense when also setting a cache age">>
    ELSE IF (opts.HandleEtagCatalogs /\ opts.CacheAgeCatalogs = 0)
            \/ (opts.HandleEtagStreams /\ opts.CacheAgeStreams = 0)
    THEN <<"ETag handling only makes sense when also setting a cache age">>
    ELSE IF opts.DisableRequestLogging /\ (opts.LogIPs \/ opts.LogUserAgent)
    THEN <<"Enabling IP or user agent logging doesn't make sense when disabling request logging">>
    ELSE IF opts.Logger # "" /\ opts.LoggingLevel # ""
    THEN <<"Setting a logging level in the options doesn't make sense when you already set a custom logger">>
    ELSE IF opts.DisableRequestLogging /\ opts.LogMediaName
    THEN <<"Enabling media name logging doesn't make sense when disabling request logging">>
    ELSE IF opts.MetaClient # "" /\ ~opts.LogMediaName /\ ~opts.PutMetaInContext
    THEN <<"Setting a meta client when neither logging the media name nor putting it in the context doesn't make sense">>
    ELSE IF opts.MetaClient # "" /\ opts.CinemetaTimeout # 0
    THEN <<"Setting a Cinemeta timeout doesn't make sense when you already set a meta client">>
    ELSE IF manifest.BehaviorHints.ConfigurationRequired
            /\ ~manifest.BehaviorHints.Configurable
    THEN <<"Requiring a configuration only makes sense when also making the addon configurable">>
    ELSE IF opts.ConfigureHTMLfs # "" /\ ~manifest.BehaviorHints.Configurable
    THEN <<"Setting a ConfigureHTMLfs only makes sense when also making the addon configurable">>
    ELSE <<>>

\* "Set default values", "Configure logger", "Configure Cinemeta client".
\* DefaultOptions sets BindAddr, Port, LoggingLevel and LogEncoding only,
\* so the default of CinemetaTimeout is 0.
withDefaults(opts) ==
    LET o1 == [opts EXCEPT
                 !.BindAddr = IF @ = "" THEN "0.0.0.0" ELSE @,
                 !.Port = IF @ = 0 THEN DefaultPort ELSE @,
                 !.LoggingLevel = IF @ = "" THEN "info" ELSE @,
                 !.LogEncoding = IF @ = "" THEN "console" ELSE @,
                 !.CinemetaTimeout = IF @ = 0 THEN 0 ELSE @]
        o2 == [o1 EXCEPT !.Logger = IF @ = "" THEN "NewLogger" ELSE @]
    IN  [o2 EXCEPT !.MetaClient =
            IF @ = "" /\ (o2.LogMediaName \/ o2.PutMetaInContext)
            THEN "cinemeta" ELSE @]

\* NewAddon: the addon and the error it returns
NewAddon(manifest, catalogHandlers, streamHandlers, opts) ==
    LET e == newAddonError(manifest, catalogHandlers, streamHandlers, opts)
        o == withDefaults(opts)
    IN  IF e # <<>> THEN [addon |-> NoAddon, err |-> e]
        ELSE [addon |-> [nil              |-> FALSE,
                         manifest         |-> manifest,
                         catalogHandlers  |-> catalogHandlers,
                         streamHandlers   |-> streamHandlers,
                         configHandler    |-> "",
                         configUI         |-> "",
                         opts             |-> o,
                         logger           |-> o.Logger,
                         customEndpoints  |-> <<>>,
                         manifestCallback |-> "",
                         userDataType     |-> "",
                         metaClient       |-> o.MetaClient],
              err   |-> <<>>]

(***************************************************************************)
(* Run: the routes.  go.mod says go 1.24, so http.ServeMux takes the       *)
(* patterns of Go 1.22: a pattern is a sequence of segments and "a         *)
(* wildcard must be a full path segment" (net/http).  A segment is written *)
(* here as the sequence of its parts, Lit("catalog") or Wild("type"), so   *)
(* that {id}.json is <<Wild("id"), Lit(".json")>>; "/" is <<>>.            *)
(* HandleFunc panics on a pattern it cannot parse and on a pattern that is *)
(* registered already.                                                     *)
(***************************************************************************)
Lit(s) == [wild |-> FALSE, s |-> s]

Wild(name) == [wild |-> TRUE, s |-> name]

PatHealth == << <<Lit("health")>> >>
PatManifest == << <<Lit("manifest.json")>> >>
PatUserManifest == << <<Wild("userData")>>, <<Lit("manifest.json")>> >>
PatCatalog ==
    << <<Lit("catalog")>>, <<Wild("type")>>, <<Wild("id"), Lit(".json")>> >>
PatUserCatalog == << <<Wild("userData")>> >> \o PatCatalog
PatStream ==
    << <<Lit("stream")>>, <<Wild("type")>>, <<Wild("id"), Lit(".json")>> >>
PatUserStream == << <<Wild("userData")>> >> \o PatStream
PatConfigure == << <<Lit("configure")>> >>
PatConfigureJSON == << <<Lit("configure.json")>> >>
PatRoot == <<>>

\* net/http parsePattern accepts the pattern: a segment that holds a
\* wildcard holds nothing else
validPattern(p) ==
    \A i \in 1..Len(p) :
        (\E j \in 1..Len(p[i]) : p[i][j].wild) => Len(p[i]) = 1

\* mux.HandleFunc(pattern, h): Run's patterns name no method ("/health", not
\* "GET /health"), and a pattern without a method matches every method
Route(p, h) == [pattern |-> p, handler |-> h, method |-> ""]

OnlyIf(b, s) == IF b THEN s ELSE <<>>

\* the HandleFunc/Handle calls of Run, in the order Run makes them
runRegistrations(a) ==
    LET required == a.manifest.BehaviorHints.ConfigurationRequired
    IN  <<Route(PatHealth, "health"),
          Route(PatManifest, "manifest"),
          Route(PatUserManifest, "manifest")>>
        \o OnlyIf(~a.catalogHandlers.nil,
                  OnlyIf(~required, <<Route(PatCatalog, "catalog")>>)
                  \o <<Route(PatUserCatalog, "catalog")>>)
        \o OnlyIf(~a.streamHandlers.nil,
                  OnlyIf(~required, <<Route(PatStream, "stream")>>)
                  \o <<Route(PatUserStream, "stream")>>)
        \o OnlyIf(a.manifest.BehaviorHints.Configurable,
                  OnlyIf(a.configHandler # "", <<Route(PatConfigure, "configure")>>)
                  \o OnlyIf(a.configUI # "", <<Route(PatConfigureJSON, "configureUI")>>))
        \o OnlyIf(a.opts.RedirectURL # "", <<Route(PatRoot, "root")>>)
        \o [i \in 1..Len(a.customEndpoints) |->
                Route(a.customEndpoints[i].path, a.customEndpoints[i].handler)]
        \o OnlyIf(a.metaClient # "",
                  OnlyIf(~required, <<Route(PatStream, "meta")>>)
                  \o <<Route(PatUserStream, "meta")>>)

\* registration i of regs makes HandleFunc panic
registrationPanics(regs, i) ==
    \/ ~validPattern(regs[i].pattern)
    \/ \E j \in 1..(i - 1) : regs[j].pattern = regs[i].pattern

\* Run up to the start of the server: the routes registered, and whether a
\* registration panicked
runRoutes(a) ==
    LET regs == runRegistrations(a)
        bad  == {i \in 1..Len(regs) : registrationPanics(regs, i)}
    IN  IF bad = {}
        THEN [panicked |-> FALSE, routes |-> regs]
        ELSE LET first == CHOOSE i \in bad : \A j \in bad : i <= j
             IN  [panicked |-> TRUE, routes |-> SubSeq(regs, 1, first - 1)]

\* int(d.Seconds()) for a duration d >= 0
seconds(d) == d \div Second

\* the arguments createCatalogHandler/createStreamHandler get in Run
handlerConfig(a, kind) ==
    [cacheAge    |-> seconds(IF kind = "catalog" THEN a.opts.CacheAgeCatalogs
                             ELSE a.opts.CacheAgeStreams),
     cachePublic |-> IF kind = "catalog" THEN a.opts.CachePublicCatalogs
                     ELSE a.opts.CachePublicStreams,
     handleEtag  |-> IF kind = "catalog" THEN a.opts.HandleEtagCatalogs
                     ELSE a.opts.HandleEtagStreams,
     handlers    |-> IF kind = "catalog" THEN a.catalogHandlers.types
                     ELSE a.streamHandlers.types,
     userData    |-> [type |-> a.userDataType, isBase64 |-> a.opts.UserDataIsBase64]]

(***************************************************************************)
(* http.ServeMux dispatch.  A request path is the sequence of its          *)
(* segments, each a sequence of tokens.  The patterns in a mux are all     *)
(* valid, so each of their segments is one literal or one wildcard; "/"    *)
(* matches every path; the most specific matching pattern wins.            *)
(***************************************************************************)
segmentMatches(seg, s) ==
    IF seg[1].wild THEN s # <<>> ELSE s = <<seg[1].s>>

patternMatches(p, path) ==
    \/ p = PatRoot
    \/ /\ Len(p) = Len(path)
       /\ \A i \in 1..Len(p) : segmentMatches(p[i], path[i])

literals(p) == Cardinality({i \in 1..Len(p) : ~p[i][1].wild})

\* the route the mux picks, NoRoute if none matches
NoRoute == Route(PatRoot, "")

muxRoute(rs, path) ==
    LET m == {i \in 1..Len(rs) : patternMatches(rs[i].pattern, path)}
    IN  IF m = {} THEN NoRoute
        ELSE rs[CHOOSE i \in m :
                    \A j \in m :
                        \/ rs[i].pattern # PatRoot /\ rs[j].pattern = PatRoot
                        \/ literals(rs[i].pattern) > literals(rs[j].pattern)
                        \/ (literals(rs[i].pattern) = literals(rs[j].pattern)
                            /\ i <= j)]

\* r.PathValue(name) for the pattern that matched
PathValue(p, path, name) ==
    LET at == {i \in 1..Len(p) : p[i] = <<Wild(name)>>}
    IN  IF at = {} THEN <<>> ELSE path[CHOOSE i \in at : TRUE]

(***************************************************************************)
(* The calls of NewAddon the model makes.  The arguments are those of the  *)
(* example programs (a manifest with its four required fields, the zero    *)
(* Options) changed in at most MaxDeviations places, with every            *)
(* combination of the two cache ages and of the two handler maps.          *)
(***************************************************************************)
MaxDeviations == 2

ManifestFields == {"ID", "Name", "Description", "Version"}

HintFields == {"Configurable", "ConfigurationRequired"}

BoolOptions ==
    {"DisableRequestLogging", "LogIPs", "LogUserAgent", "LogMediaName",
     "CachePublicCatalogs", "CachePublicStreams",
     "HandleEtagCatalogs", "HandleEtagStreams",
     "PutMetaInContext", "UserDataIsBase64"}

ValueOptions ==
    {"Logger", "LoggingLevel", "MetaClient", "CinemetaTimeout",
     "ConfigureHTMLfs", "RedirectURL"}

Deviations == ManifestFields \cup HintFields \cup BoolOptions \cup ValueOptions

RECURSIVE SubsetsUpTo(_, _)
SubsetsUpTo(S, k) ==
    IF k = 0 \/ S = {} THEN {{}}
    ELSE LET x == CHOOSE y \in S : TRUE
         IN  SubsetsUpTo(S \ {x}, k)
             \cup {T \cup {x} : T \in SubsetsUpTo(S \ {x}, k - 1)}

Durations == {0, Second \div 2, Second}

NilHandlers == [nil |-> TRUE, types |-> {}]

HandlerMaps ==
    {NilHandlers, [nil |-> FALSE, types |-> {}], [nil |-> FALSE, types |-> {"movie"}]}

manifestOf(D) ==
    [ID            |-> IF "ID" \in D THEN "" ELSE "com.example.blender-streams",
     Name          |-> IF "Name" \in D THEN "" ELSE "Blender movie streams",
     Description   |-> IF "Description" \in D THEN "" ELSE "Stream addon",
     Version       |-> IF "Version" \in D THEN "" ELSE "0.1.0",
     ResourceItems |-> List(<<"stream">>),
     Types         |-> List(<<"movie">>),
     Catalogs      |-> NilList,
     IDprefixes    |-> NilList,
     Background    |-> "",
     Logo          |-> "",
     ContactEmail  |-> "",
     BehaviorHints |-> [Adult                 |-> FALSE,
                        P2P                   |-> FALSE,
                        Configurable          |-> "Configurable" \in D,
                        ConfigurationRequired |-> "ConfigurationRequired" \in D]]

optionsOf(D, ageCatalogs, ageStreams) ==
    [BindAddr              |-> "",
     Port                  |-> 0,
     Logger                |-> IF "Logger" \in D THEN "custom" ELSE "",
     LoggingLevel          |-> IF "LoggingLevel" \in D THEN "debug" ELSE "",
     LogEncoding           |-> "",
     DisableRequestLogging |-> "DisableRequestLogging" \in D,
     LogIPs                |-> "LogIPs" \in D,
     LogUserAgent          |-> "LogUserAgent" \in D,
     LogMediaName          |-> "LogMediaName" \in D,
     CacheAgeCatalogs      |-> ageCatalogs,
     CacheAgeStreams       |-> ageStreams,
     CachePublicCatalogs   |-> "CachePublicCatalogs" \in D,
     CachePublicStreams    |-> "CachePublicStreams" \in D,
     HandleEtagCatalogs    |-> "HandleEtagCatalogs" \in D,
     HandleEtagStreams     |-> "HandleEtagStreams" \in D,
     MetaClient            |-> IF "MetaClient" \in D THEN "custom" ELSE "",
     CinemetaTimeout       |-> IF "CinemetaTimeout" \in D THEN Second ELSE 0,
     PutMetaInContext      |-> "PutMetaInContext" \in D,
     ConfigureHTMLfs       |-> IF "ConfigureHTMLfs" \in D THEN "fs" ELSE "",
     Metrics               |-> FALSE,
     Profiling             |-> FALSE,
     RedirectURL           |-> IF "RedirectURL" \in D THEN "https://example.org" ELSE "",
     UserDataIsBase64      |-> "UserDataIsBase64" \in D,
     StreamIDregex         |-> ""]

Arguments ==
    {[manifest        |-> manifestOf(D),
      catalogHandlers |-> ch,
      streamHandlers  |-> sh,
      opts            |-> optionsOf(D, ac, as)] :
        D \in SubsetsUpTo(Deviations, MaxDeviations),
        ch \in HandlerMaps, sh \in HandlerMaps,
        ac \in Durations, as \in Durations}

NoArgs ==
    [manifest        |-> manifestOf(ManifestFields),
     catalogHandlers |-> NilHandlers,
     streamHandlers  |-> NilHandlers,
     opts            |-> optionsOf({}, 0, 0)]

(***************************************************************************)
(* The handlers under every construction and every request: the package's  *)
(* own test (addon_test.go) builds a handler with createStreamHandler and  *)
(* mounts it on a mux of its own; here that is done for the four handlers, *)
(* with every argument and every request of the sets below.  The handlers  *)
(* keep nothing between requests, so a run is one client's conversation    *)
(* about one URL: a first request, then revalidations of it that send the  *)
(* ETag of the last response in If-None-Match.                             *)
(***************************************************************************)
CacheAges == {0, 1, 3600}

RegisteredTypes == {"movie"}

Configs ==
    [cacheAge : CacheAges, cachePublic : BOOLEAN, handleEtag : BOOLEAN,
     handlers : {RegisteredTypes},
     userData : {[type |-> "", isBase64 |-> FALSE],
                 [type |-> "T", isBase64 |-> FALSE],
                 [type |-> "T", isBase64 |-> TRUE]}]

NoConfig ==
    [cacheAge |-> 0, cachePublic |-> FALSE, handleEtag |-> FALSE,
     handlers |-> {}, userData |-> [type |-> "", isBase64 |-> FALSE]]

Kinds == {"catalog", "stream", "subtitle", "configure"}

Types == {"", "movie", "series"}

Ids == {<<>>, <<"tt1">>, <<"tt1", ".json">>}

\* "%7": an escape cut short, and no base64url either
BadEscape == <<37, 55>>

\* "W10": base64url and percent-encoding alike, but of JSON ("[]" and "W10")
\* that does not fit the registered type
BadJson == b64EncodeNoPad(<<91, 93>>)

UserDatas ==
    {<<>>, b64EncodeNoPad(jsonOfUser(1)), pctEncode(jsonOfUser(1)), BadEscape, BadJson}

NoPathValues == [type |-> "", id |-> <<>>, userData |-> <<>>]

NoQuery == [type |-> "", id |-> <<>>, userData |-> <<>>, videoId |-> <<>>]

\* the request lines a client sends for a resource kind
Targets(kind) ==
    IF kind \in {"catalog", "stream"}
    THEN {[kind |-> kind, pv |-> p, q |-> NoQuery] :
             p \in [type : Types, id : Ids, userData : UserDatas]}
         \cup
         {[kind |-> kind, pv |-> NoPathValues,
           q |-> [type |-> t, id |-> i, userData |-> u, videoId |-> <<>>]] :
             t \in Types, i \in Ids, u \in UserDatas}
    ELSE IF kind = "subtitle"
    THEN {[kind |-> kind, pv |-> NoPathValues,
           q |-> [type |-> "", id |-> <<>>, userData |-> u, videoId |-> v]] :
             u \in UserDatas, v \in {<<>>, <<"tt1">>}}
    ELSE {[kind |-> kind, pv |-> NoPathValues,
           q |-> [type |-> "", id |-> <<>>, userData |-> u, videoId |-> <<>>]] :
             u \in UserDatas}

Errors ==
    {ErrNotFound, <<"lookup: ">> \o ErrNotFound, <<"db down">>, <<"timeout">>}

\* what a callback can return: items and no error, or an error
Rets ==
    {[items |-> l, err |-> <<>>] : l \in ItemLists}
    \cup {[items |-> NilItems, err |-> e] : e \in Errors}

NoRet == [items |-> NilItems, err |-> <<>>]

StaleTag == <<"\"stale\"">>

\* If-None-Match of a first request: absent, a tag that matches nothing,
\* or the tag of what the callback is about to return
FirstTags(kind, out) == {<<>>, StaleTag, generateETag(kind, out.items)}

NoRequest == [kind |-> "", pv |-> NoPathValues, q |-> NoQuery, inm |-> <<>>]

NoResponse == [status |-> 0, header |-> NoHeader, body |-> <<>>, calls |-> <<>>]

NoPrev == [set |-> FALSE, etag |-> <<>>, items |-> NilItems, status |-> 0]

Serve(c, r, out) ==
    CASE r.kind = "catalog" ->
            createCatalogHandler(c.handlers, c.cacheAge, c.cachePublic,
                c.handleEtag, c.userData.type, c.userData.isBase64, r, out)
      [] r.kind = "stream" ->
            createStreamHandler(c.handlers, c.cacheAge, c.cachePublic,
                c.handleEtag, c.userData.type, c.userData.isBase64, r, out)
      [] r.kind = "subtitle" ->
            createSubtitleHandler(c.cacheAge, c.cachePublic,
                c.handleEtag, c.userData.type, c.userData.isBase64, r, out)
      [] OTHER ->
            configureHandler(c.userData.type, c.userData.isBase64, r, out)

\* the manifests a manifest handler is built with
Manifests ==
    {[manifestOf(IF required THEN {"Configurable", "ConfigurationRequired"} ELSE {})
        EXCEPT !.IDprefixes = p] :
        required \in BOOLEAN, p \in {NilList, List(<<>>), List(<<"tt">>)}}

\* createManifestHandler(manifest, logger, callback, userDataType, userDataIsBase64)
ManifestConfigs ==
    [cacheAge : {0}, cachePublic : {FALSE}, handleEtag : {FALSE}, handlers : {{}},
     userData : {[type |-> "", isBase64 |-> FALSE],
                 [type |-> "T", isBase64 |-> FALSE],
                 [type |-> "T", isBase64 |-> TRUE]},
     manifest : Manifests, callback : BOOLEAN]

\* GET /manifest.json, GET /{userData}/manifest.json, and the former with
\* ?userData=
ManifestTargets ==
    {[kind |-> "manifest", pv |-> [NoPathValues EXCEPT !.userData = u],
      q |-> NoQuery, inm |-> <<>>] : u \in UserDatas}
    \cup
    {[kind |-> "manifest", pv |-> NoPathValues,
      q |-> [NoQuery EXCEPT !.userData = u], inm |-> <<>>] : u \in UserDatas}

CallbackStatuses == {200, 399, 400, 403}

\* what a manifest callback can return and do
ManifestRets(callback) ==
    IF callback
    THEN [items : {NilItems}, err : {<<>>},
          status : CallbackStatuses, change : ManifestChanges]
    ELSE {[items |-> NilItems, err |-> <<>>, status |-> 0, change |-> "none"]}

\* createMetaMiddleware(metaClient, putMetaInContext, logMediaName, logger)
\* as Run mounts it ("run"), and createSlogLoggingMiddleware around
\* createSlogMetaMiddleware ("slog"); NewAddon sets a meta client only when
\* one of the two options is set
MetaConfigs ==
    {c \in [cacheAge : {0}, cachePublic : {FALSE}, handleEtag : {FALSE},
            handlers : {RegisteredTypes},
            userData : {[type |-> "", isBase64 |-> FALSE]},
            chain : {"run", "slog"},
            putMetaInContext : BOOLEAN, logMediaName : BOOLEAN] :
        c.putMetaInContext \/ c.logMediaName}

Numbers == {<<>>, <<49>>, <<120>>}

MetaIds == {<<>>, <<"tt1", ".json">>, <<"tt1">>, <<"tt1", ":", "1", ":", "2">>,
            <<"tt1", ":", "x", ":", "2">>, <<"%zz">>}

\* GET /stream/{type}/{id}.json?season=&episode= for the chain of Run,
\* GET /stream?type=&id= for the other
MetaTargets(chain) ==
    IF chain = "run"
    THEN {[kind |-> "meta",
           pv   |-> [type |-> t, id |-> i, userData |-> <<>>],
           q    |-> [type |-> "", id |-> <<>>, userData |-> <<>>, videoId |-> <<>>,
                     season |-> n, episode |-> e],
           inm  |-> <<>>, ctx |-> Background] :
             t \in Types, i \in MetaIds, n \in Numbers, e \in Numbers}
    ELSE {[kind |-> "logged",
           pv   |-> NoPathValues,
           q    |-> [type |-> t, id |-> i, userData |-> <<>>, videoId |-> <<>>,
                     season |-> <<>>, episode |-> <<>>],
           inm  |-> <<>>, ctx |-> Background] :
             t \in Types, i \in MetaIds}

Metas == {[Name |-> "Big Buck Bunny", ReleaseInfo |-> "2008"],
          [Name |-> "Sintel", ReleaseInfo |-> "2010"]}

\* what the MetaFetcher returns: a meta and no error, or an error
MetaRets ==
    {[items |-> NilItems, err |-> <<>>, meta |-> m, fetchErr |-> <<>>] : m \in Metas}
    \cup {[items |-> NilItems, err |-> <<>>, meta |-> NoMeta, fetchErr |-> e] :
              e \in {<<"cinemeta: timeout">>}}

ServeMeta(c, r, out) ==
    LET fetch == [meta |-> out.meta, err |-> out.fetchErr]
    IN  IF c.chain = "run"
        THEN createMetaMiddleware(c.putMetaInContext, c.logMediaName, r, fetch)
        ELSE createSlogLoggingMiddleware(c.logMediaName, r,
                 createSlogMetaMiddleware(c.putMetaInContext, c.logMediaName, r, fetch))

(***************************************************************************)
(* The process Run is called in.  A chan bool is its capacity and the      *)
(* values it buffers; receiver says whether the caller of Run ever         *)
(* receives from the stopping channel.  events is what Run did, in order.  *)
(***************************************************************************)
NilChan == [nil |-> TRUE, cap |-> 0, buf |-> <<>>]

\* make(chan bool, capacity)
make(capacity) == [nil |-> FALSE, cap |-> capacity, buf |-> <<>>]

\* ch <- v: buffered while there is room; on a full channel the sender waits
\* for a receive, for good if none ever comes
send(ch, v, receiver) ==
    IF Len(ch.buf) < ch.cap
    THEN [blocked |-> FALSE, ch |-> [ch EXCEPT !.buf = Append(@, v)]]
    ELSE IF receiver
    THEN [blocked |-> FALSE, ch |-> [ch EXCEPT !.buf = Tail(Append(@, v))]]
    ELSE [blocked |-> TRUE, ch |-> ch]

\* no request is in a middleware
NoMiddleware == [kind |-> "none"]

NoProcess ==
    [stoppingChan |-> NilChan, receiver |-> FALSE, inFlight |-> <<>>,
     signals |-> 0, events |-> <<>>]

NoCodec ==
    [stage |-> "none", v |-> 0, isBase64 |-> FALSE, text |-> <<>>,
     val |-> NilValue, err |-> <<>>]

Init ==
    /\ phase = "Unconfigured"
    /\ args = NoArgs
    /\ addon = NoAddon
    /\ newErr = <<>>
    /\ routes = <<>>
    /\ cfg \in Configs \cup ManifestConfigs \cup MetaConfigs
    /\ req = NoRequest
    /\ ret = NoRet
    /\ resp = NoResponse
    /\ prev = NoPrev
    /\ held = IF cfg \in ManifestConfigs THEN cfg.manifest ELSE NoManifest
    /\ codec = NoCodec
    /\ proc = NoProcess
    /\ mw = NoMiddleware

\* a client's first request
Request ==
    /\ cfg \in Configs
    /\ req = NoRequest
    /\ \E kind \in Kinds : \E t \in Targets(kind) : \E out \in Rets :
       \E inm \in FirstTags(kind, out) :
        /\ req' = [kind |-> t.kind, pv |-> t.pv, q |-> t.q, inm |-> inm]
        /\ ret' = out
        /\ resp' = Serve(cfg, req', out)
    /\ UNCHANGED <<lifecycle, cfg, prev, held, codec, proc, mw>>

\* the client asks again for what it has, sending the ETag it was given
Revalidate ==
    /\ req # NoRequest
    /\ resp.header["ETag"].set
    /\ \E out \in Rets :
        /\ req' = [req EXCEPT !.inm = HeaderGet(resp.header, "ETag")]
        /\ ret' = out
        /\ resp' = Serve(cfg, req', out)
    /\ prev' = [set |-> TRUE, etag |-> HeaderGet(resp.header, "ETag"),
                items |-> ret.items, status |-> resp.status]
    /\ UNCHANGED <<lifecycle, cfg, held, codec, proc, mw>>

\* a manifest request, the first of a run or the one after it
ManifestRequest ==
    /\ cfg \in ManifestConfigs
    /\ ~prev.set
    /\ \E r \in ManifestTargets : \E out \in ManifestRets(cfg.callback) :
        LET h == createManifestHandler(held, cfg.callback, cfg.userData.type,
                                       cfg.userData.isBase64, r, out)
        IN  /\ req' = r
            /\ ret' = out
            /\ resp' = h.reply
            /\ held' = h.manifest
    /\ prev' = IF req = NoRequest THEN prev
               ELSE [set |-> TRUE, etag |-> <<>>, items |-> NilItems,
                     status |-> resp.status]
    /\ UNCHANGED <<lifecycle, cfg, codec, proc, mw>>

\* a request to a route with the metadata middleware
MetaRequest ==
    /\ cfg \in MetaConfigs
    /\ req = NoRequest
    /\ \E r \in MetaTargets(cfg.chain) : \E out \in MetaRets :
        /\ req' = r
        /\ ret' = out
        /\ resp' = ServeMeta(cfg, r, out)
    /\ UNCHANGED <<lifecycle, cfg, prev, held, codec, proc, mw>>

Next == Request \/ Revalidate \/ ManifestRequest \/ MetaRequest

Spec == Init /\ [][Next]_vars

(***************************************************************************)
(* User data from a client's value to the handler's argument               *)
(* (specification SpecCodec): a value of the registered type is written    *)
(* as JSON and encoded for the URL, and decodeUserData is applied to the   *)
(* text.                                                                   *)
(***************************************************************************)
\* the texts a client can send for a value: percent-encoded JSON, or
\* base64url JSON without padding or with its full padding
Encodings(v, isBase64) ==
    IF isBase64
    THEN {b64EncodeNoPad(jsonOfUser(v)), b64EncodeToString(jsonOfUser(v))}
    ELSE {pctEncode(jsonOfUser(v))}

InitCodec ==
    /\ phase = "Unconfigured"
    /\ args = NoArgs
    /\ addon = NoAddon
    /\ newErr = <<>>
    /\ routes = <<>>
    /\ cfg = NoConfig
    /\ req = NoRequest
    /\ ret = NoRet
    /\ resp = NoResponse
    /\ prev = NoPrev
    /\ held = NoManifest
    /\ proc = NoProcess
    /\ mw = NoMiddleware
    /\ \E v \in UserValues, b \in BOOLEAN :
        codec = [NoCodec EXCEPT !.stage = "value", !.v = v, !.isBase64 = b]

\* the client puts the value into the URL
EncodeUserData ==
    /\ codec.stage = "value"
    /\ \E t \in Encodings(codec.v, codec.isBase64) :
        codec' = [codec EXCEPT !.stage = "text", !.text = t]
    /\ UNCHANGED <<lifecycle, cfg, req, ret, resp, prev, held, proc, mw>>

\* a handler decodes the user data of the request
DecodeUserData ==
    /\ codec.stage = "text"
    /\ LET dec == decodeUserData(codec.text, "T", codec.isBase64)
       IN  codec' = [codec EXCEPT !.stage = "decoded", !.val = dec.val,
                                  !.err = dec.err]
    /\ UNCHANGED <<lifecycle, cfg, req, ret, resp, prev, held, proc, mw>>

NextCodec == EncodeUserData \/ DecodeUserData

SpecCodec == InitCodec /\ [][NextCodec]_vars

(***************************************************************************)
(* The addon from construction to its first request (specification         *)
(* SpecAddon): the program of the examples, NewAddon, the setup calls, Run, *)
(* and then a client.                                                      *)
(***************************************************************************)
InitAddon ==
    /\ phase = "Unconfigured"
    /\ args = NoArgs
    /\ addon = NoAddon
    /\ newErr = <<>>
    /\ routes = <<>>
    /\ cfg = NoConfig
    /\ req = NoRequest
    /\ ret = NoRet
    /\ resp = NoResponse
    /\ prev = NoPrev
    /\ held = NoManifest
    /\ codec = NoCodec
    /\ proc = NoProcess
    /\ mw = NoMiddleware

\* addon, err := stremio.NewAddon(manifest, catalogHandlers, streamHandlers, options)
CallNewAddon ==
    /\ phase = "Unconfigured"
    /\ \E a \in Arguments :
        LET r == NewAddon(a.manifest, a.catalogHandlers, a.streamHandlers, a.opts)
        IN  /\ args' = a
            /\ addon' = r.addon
            /\ newErr' = r.err
            /\ phase' = IF r.err # <<>> THEN "Rejected" ELSE "Validated"
    /\ UNCHANGED <<routes, cfg, req, ret, resp, prev, held, codec, proc, mw>>

\* addon.SetConfigurationHandler(handler)
SetConfigurationHandler ==
    /\ phase = "Validated"
    /\ addon.configHandler = ""
    /\ addon' = [addon EXCEPT !.configHandler = "handler"]
    /\ UNCHANGED <<phase, args, newErr, routes, cfg, req, ret, resp, prev, held, codec, proc, mw>>

\* addon.Run(nil), up to the blocking wait for a signal.  A panic in
\* HandleFunc ends the program: the server is never started.
Run ==
    /\ phase = "Validated"
    /\ LET r == runRoutes(addon)
       IN  /\ routes' = r.routes
           /\ phase' = IF r.panicked THEN "Panicked" ELSE "Serving"
    /\ held' = addon.manifest
    /\ UNCHANGED <<args, addon, newErr, cfg, req, ret, resp, prev, codec, proc, mw>>

\* the paths a client asks for, as segments; the last one carries the user
\* data "abc"
ClientPaths ==
    {<< <<"stream">>, <<"movie">>, <<"tt1", ".json">> >>,
     << <<"stream">>, <<"series">>, <<"tt1", ".json">> >>,
     << <<"catalog">>, <<"movie">>, <<"tt1", ".json">> >>,
     << <<"abc">>, <<"stream">>, <<"movie">>, <<"tt1", ".json">> >>}

segmentString(s) == IF s = <<>> THEN "" ELSE s[1]

\* the *http.Request a handler gets for a path the mux matched to route rt
requestOf(rt, path) ==
    [kind |-> rt.handler,
     pv   |-> [type     |-> segmentString(PathValue(rt.pattern, path, "type")),
               id       |-> PathValue(rt.pattern, path, "id"),
               userData |-> PathValue(rt.pattern, path, "userData")],
     q    |-> NoQuery,
     inm  |-> <<>>,
     path |-> path]

\* GET path as the client sends it: no header, no query
clientRequest(path) ==
    [kind |-> segmentString(path[Len(path) - 2]), pv |-> NoPathValues, q |-> NoQuery,
     inm |-> <<>>, path |-> path]

\* the server's answer to GET path: none when no server is listening
serverAnswer(a, rs, serving, path, out) ==
    IF ~serving THEN NoResponse
    ELSE LET rt == muxRoute(rs, path)
         IN  IF rt.handler \in {"catalog", "stream"}
             THEN Serve(handlerConfig(a, rt.handler), requestOf(rt, path), out)
             ELSE Reply(httpError(NoHeader, "404 page not found", StatusNotFound), <<>>)

\* a client sends GET path to the address the addon was to listen on
ClientGet ==
    /\ phase \in {"Panicked", "Serving"}
    /\ req = NoRequest
    /\ \E path \in ClientPaths : \E out \in Rets :
        /\ req' = clientRequest(path)
        /\ ret' = out
        /\ resp' = serverAnswer(addon, routes, phase = "Serving", path, out)
    /\ UNCHANGED <<lifecycle, cfg, prev, held, codec, proc, mw>>

NextAddon ==
    \/ CallNewAddon
    \/ SetConfigurationHandler
    \/ Run
    \/ ClientGet

SpecAddon == InitAddon /\ [][NextAddon]_vars

(***************************************************************************)
(* Run from its call to its end (specification SpecRun): the program of    *)
(* the examples after NewAddon has succeeded.  It may add a custom         *)
(* endpoint, then calls Run(stoppingChan); the operating system may        *)
(* deliver a termination signal while the process lives, and a client      *)
(* sends requests to the address the addon was to listen on.               *)
(***************************************************************************)
\* a stream-ID pattern, and one that regexp.Compile rejects
TTRegex == "^tt\\d+$"

BadRegex == "tt("

\* the ids of the model that TTRegex matches
TTIds == {<<"tt1">>}

\* regexp.Compile(expr): whether it succeeds
regexpCompiles(expr) == expr # BadRegex

\* streamIDregex.MatchString(id)
MatchString(expr, id) == expr = TTRegex /\ id \in TTIds

\* the handler addRouteMatcherMiddleware builds around next: "" when it
\* calls next, else the text of the 400 it answers
routeMatcher(configurationRequired, streamIDregex, r) ==
    LET userData == IF r.pv.userData # <<>> THEN r.pv.userData ELSE r.q.userData
        id       == IF r.pv.id # <<>> THEN r.pv.id ELSE r.q.id
    IN  IF configurationRequired /\ userData = <<>> THEN "Configuration required"
        ELSE IF streamIDregex # "" /\ id # <<>> /\ ~MatchString(streamIDregex, id)
        THEN "Invalid stream ID"
        ELSE ""

\* addRouteMatcherMiddleware(mux, ...): the routes of the caller's mux after
\* the call.  The mux that holds the middleware is assigned to the
\* function's own parameter and is dropped when the function returns.
addRouteMatcherMiddleware(mux, configurationRequired, streamIDregex) == mux

\* Run from "Create mux" to the start of the server: how it ends, and the
\* routes registered by then
runSetup(a) ==
    LET r      == runRoutes(a)
        before == Len(runRegistrations([a EXCEPT !.metaClient = ""]))
    IN  IF r.panicked /\ Len(r.routes) < before
        THEN [outcome |-> "panic", routes |-> r.routes]
        ELSE IF ~regexpCompiles(a.opts.StreamIDregex)
        THEN [outcome |-> "exit", routes |-> SubSeq(r.routes, 1, before)]
        ELSE IF r.panicked
        THEN [outcome |-> "panic", routes |-> r.routes]
        ELSE [outcome |-> "serving",
              routes  |-> addRouteMatcherMiddleware(r.routes,
                              a.manifest.BehaviorHints.ConfigurationRequired,
                              a.opts.StreamIDregex)]

\* context.WithTimeout(context.Background(), 10*time.Second), in seconds
ShutdownTimeout == 10

\* server.Shutdown(ctx): nil when every in-flight request ends before the
\* deadline of ctx, else the error of ctx.  inFlight holds, for each request
\* in flight, the time it still takes.
Shutdown(timeout, inFlight) ==
    IF \A i \in 1..Len(inFlight) : inFlight[i] <= timeout
    THEN <<>>
    ELSE <<"context deadline exceeded">>

\* Run from the receipt of a signal ("sig := <-c") to its end
handleShutdown(p) ==
    LET sent     == IF p.stoppingChan.nil
                    THEN [blocked |-> FALSE, ch |-> p.stoppingChan]
                    ELSE send(p.stoppingChan, TRUE, p.receiver)
        notified == IF p.stoppingChan.nil THEN <<>> ELSE <<"stoppingChan <- true">>
        err      == Shutdown(ShutdownTimeout, p.inFlight)
    IN  IF sent.blocked
        THEN [phase |-> "Blocked",
              proc  |-> [p EXCEPT !.events = @ \o <<"sig := <-c">>]]
        ELSE [phase |-> IF err # <<>> THEN "Exited" ELSE "Stopped",
              proc  |-> [p EXCEPT
                            !.stoppingChan = sent.ch,
                            !.events = @ \o <<"sig := <-c">> \o notified
                                         \o <<"server.Shutdown">>
                                         \o (IF err # <<>> THEN <<"os.Exit">>
                                             ELSE <<"return">>)]]

MaxEndpoints == 1

PatPing == << <<Lit("ping")>> >>

Methods == {"GET", "POST"}

\* the stopping channels a caller passes: none, an unbuffered one, a
\* buffered one, and a buffered one that holds a value already
StoppingChans ==
    {NilChan, make(0), make(1), [make(1) EXCEPT !.buf = <<TRUE>>]}

\* what the requests in flight at the signal still take, in seconds: none
\* in flight, one that ends within the grace period, one that does not
InFlights == {<<>>, <<ShutdownTimeout>>, <<ShutdownTimeout + 1>>}

RunDeviations ==
    {{}, {"Configurable", "ConfigurationRequired"}, {"RedirectURL"},
     {"PutMetaInContext"}}

\* the arguments of NewAddon in the programs that reach Run
RunArguments ==
    {[manifest        |-> manifestOf(D),
      catalogHandlers |-> NilHandlers,
      streamHandlers  |-> [nil |-> FALSE, types |-> {"movie"}],
      opts            |-> [optionsOf(D, 0, 0) EXCEPT !.StreamIDregex = re]] :
        D \in RunDeviations, re \in {"", TTRegex, BadRegex}}

InitRun ==
    /\ phase = "Validated"
    /\ args \in RunArguments
    /\ addon = NewAddon(args.manifest, args.catalogHandlers,
                        args.streamHandlers, args.opts).addon
    /\ newErr = <<>>
    /\ routes = <<>>
    /\ cfg = NoConfig
    /\ req = NoRequest
    /\ ret = NoRet
    /\ resp = NoResponse
    /\ prev = NoPrev
    /\ held = NoManifest
    /\ codec = NoCodec
    /\ mw = NoMiddleware
    /\ \E ch \in StoppingChans, rcv \in BOOLEAN, f \in InFlights :
        proc = [NoProcess EXCEPT !.stoppingChan = ch, !.receiver = rcv,
                                 !.inFlight = f]

\* addon.AddEndpoint(method, path, handler)
AddEndpoint ==
    /\ phase = "Validated"
    /\ Cardinality({i \in 1..Len(addon.customEndpoints) :
                        addon.customEndpoints[i].handler = "custom"}) < MaxEndpoints
    /\ \E method \in Methods :
        addon' = [addon EXCEPT !.customEndpoints =
                     Append(@, [method |-> method, path |-> PatPing,
                                handler |-> "custom"])]
    /\ UNCHANGED <<phase, args, newErr, routes, cfg, req, ret, resp, prev, held, codec, proc, mw>>

PatSubtitles == << <<Lit("subtitles")>> >>

\* the positions of the subtitle endpoints in a's custom endpoints
subtitleEndpoints(a) ==
    {i \in 1..Len(a.customEndpoints) : a.customEndpoints[i].handler = "subtitle"}

\* addon.RegisterUserData(userDataObject), for an object of type T
RegisterUserData ==
    /\ phase = "Validated"
    /\ addon.userDataType = ""
    /\ addon' = [addon EXCEPT !.userDataType = "T"]
    /\ UNCHANGED <<phase, args, newErr, routes, cfg, req, ret, resp, prev, held, codec, proc, mw>>

\* addon.AddSubtitleHandler(handler): createSubtitleHandler is called here,
\* with the options and the user-data type the addon has at this moment
AddSubtitleHandler ==
    /\ phase = "Validated"
    /\ subtitleEndpoints(addon) = {}
    /\ addon' = [addon EXCEPT !.customEndpoints =
                     Append(@, [method  |-> "GET",
                                path    |-> PatSubtitles,
                                handler |-> "subtitle",
                                built   |-> [handlerConfig(addon, "stream") EXCEPT
                                                !.handlers = {}]])]
    /\ UNCHANGED <<phase, args, newErr, routes, cfg, req, ret, resp, prev, held, codec, proc, mw>>

\* addon.Run(stoppingChan) up to "Create mux": a channel without a buffer
\* ends the process
RunStart ==
    /\ phase = "Validated"
    /\ IF ~proc.stoppingChan.nil /\ proc.stoppingChan.cap < 1
       THEN /\ phase' = "Exited"
            /\ proc' = [proc EXCEPT !.events = @ \o <<"os.Exit">>]
       ELSE /\ phase' = "Registering"
            /\ UNCHANGED proc
    /\ UNCHANGED <<args, addon, newErr, routes, cfg, req, ret, resp, prev, held, codec, mw>>

\* Run from "Create mux" to the wait for a signal: a panic of HandleFunc or
\* an os.Exit ends the process, else the server listens and signal.Notify
\* has been called
RunSetup ==
    /\ phase = "Registering"
    /\ LET r == runSetup(addon)
       IN  /\ routes' = r.routes
           /\ phase' = CASE r.outcome = "panic" -> "Panicked"
                         [] r.outcome = "exit"  -> "Exited"
                         [] OTHER               -> "Serving"
           /\ proc' = [proc EXCEPT !.events =
                          @ \o (CASE r.outcome = "panic" -> <<"panic">>
                                  [] r.outcome = "exit"  -> <<"os.Exit">>
                                  [] OTHER -> <<"ListenAndServe", "signal.Notify">>)]
    /\ held' = addon.manifest
    /\ UNCHANGED <<args, addon, newErr, cfg, req, ret, resp, prev, codec, mw>>

\* the operating system delivers SIGTERM or an interrupt to the process.
\* Before signal.Notify the signal has its default action and ends the
\* process; after it, Run receives the signal and shuts down.
Signal ==
    /\ phase \in {"Registering", "Serving"}
    /\ LET p == [proc EXCEPT !.signals = @ + 1]
           h == handleShutdown(p)
       IN  IF phase = "Registering"
           THEN phase' = "Killed" /\ proc' = p
           ELSE phase' = h.phase /\ proc' = h.proc
    /\ UNCHANGED <<args, addon, newErr, routes, cfg, req, ret, resp, prev, held, codec, mw>>

PathHealth == << <<"health">> >>

PathManifest == << <<"manifest.json">> >>

PathPing == << <<"ping">> >>

PathSubtitles == << <<"subtitles">> >>

\* the paths a client asks for in SpecRun: built-in routes, the custom
\* endpoint, and streams whose id TTRegex matches and does not match
RunPaths ==
    {PathHealth, PathManifest, PathPing, PathSubtitles,
     << <<"stream">>, <<"movie">>, <<"tt1", ".json">> >>,
     << <<"stream">>, <<"movie">>, <<"nm1", ".json">> >>,
     << <<"abc">>, <<"stream">>, <<"movie">>, <<"nm1", ".json">> >>}

\* the request a client sends with a method
runRequest(method, path) ==
    [kind |-> "run", method |-> method, path |-> path, pv |-> NoPathValues,
     q |-> NoQuery, inm |-> <<>>]

\* what the server answers and which of its parts the request went
\* through: Run sets the mux itself as the server's Handler, so a request
\* meets the mux and the handler of its route, and nothing else.  The mux
\* does not look at the method, because no pattern names one.  Of the
\* handlers other than catalog and stream only the status is kept.
runAnswer(a, rs, serving, method, path, out) ==
    IF ~serving
    THEN [status |-> 0, header |-> NoHeader, body |-> <<>>, calls |-> <<>>,
          route |-> "", stages |-> <<>>]
    ELSE LET rt == muxRoute(rs, path)
             w  == IF rt.handler \in {"catalog", "stream"}
                   THEN serverAnswer(a, rs, serving, path, out)
                   ELSE IF rt.handler = ""
                   THEN Reply(httpError(NoHeader, "404 page not found", StatusNotFound), <<>>)
                   ELSE IF rt.handler = "subtitle"
                   THEN Serve(a.customEndpoints[CHOOSE i \in subtitleEndpoints(a) : TRUE].built,
                              requestOf(rt, path), out)
                   ELSE [status |-> StatusOK, header |-> NoHeader,
                         body |-> <<>>, calls |-> <<>>]
         IN  [status |-> w.status, header |-> w.header, body |-> w.body,
              calls |-> w.calls, route |-> rt.handler, stages |-> <<"dispatch">>]

\* a client sends a request to the address the addon was to listen on
ClientRequest ==
    /\ phase \in {"Panicked", "Serving"}
    /\ req = NoRequest
    /\ \E method \in Methods : \E path \in RunPaths : \E out \in Rets :
        /\ req' = runRequest(method, path)
        /\ ret' = out
        /\ resp' = runAnswer(addon, routes, phase = "Serving", method, path, out)
    /\ UNCHANGED <<lifecycle, cfg, prev, held, codec, proc, mw>>

NextRun ==
    \/ AddEndpoint
    \/ RegisterUserData
    \/ AddSubtitleHandler
    \/ RunStart
    \/ RunSetup
    \/ Signal
    \/ ClientRequest

SpecRun == InitRun /\ [][NextRun]_vars

(***************************************************************************)
(* The middlewares: corsMiddleware, createLoggingMiddleware,               *)
(* createSlogLoggingMiddleware, createMetricsMiddleware, and               *)
(* createSlogMetaMiddleware with its goroutine.  A handler is what it does *)
(* to its http.ResponseWriter, a sequence of WriteHeader and Write calls;  *)
(* the ResponseWriter of the server sends the header at the first of them, *)
(* with 200 at a Write, and at the end of the request if there was none.   *)
(***************************************************************************)
\* w.Header().Set(name, value), w.Header() a map
setHeader(h, name, value) ==
    [x \in DOMAIN h \cup {name} |-> IF x = name THEN value ELSE h[x]]

\* the http.ResponseWriter of the server for a request: the header map, and
\* the status and header sent to the client, if any yet
NewConn == [header |-> <<>>, wroteHeader |-> FALSE, status |-> 0, sent |-> <<>>]

\* (*http.response).WriteHeader: a second call changes nothing
connWriteHeader(c, code) ==
    IF c.wroteHeader THEN c
    ELSE [c EXCEPT !.wroteHeader = TRUE, !.status = code, !.sent = c.header]

\* (*http.response).Write: writes the header with 200 if none was written
connWrite(c) == connWriteHeader(c, StatusOK)

\* the end of the request in the server: the header is sent if it was not
finishRequest(c) == connWriteHeader(c, StatusOK)

\* rw := &responseWriter{ResponseWriter: w, statusCode: http.StatusOK}
newResponseWriter(w) == [ResponseWriter |-> w, statusCode |-> StatusOK]

\* responseWriter.WriteHeader without the capture of the code
rwWriteHeader_NoCapture(rw, code) ==
    [rw EXCEPT !.ResponseWriter = connWriteHeader(@, code)]

\* func (rw *responseWriter) WriteHeader(code int)
rwWriteHeader(rw, code) ==
    [rw EXCEPT !.statusCode = code, !.ResponseWriter = connWriteHeader(@, code)]

\* rw.Write: the method of the embedded ResponseWriter
rwWrite(rw) == [rw EXCEPT !.ResponseWriter = connWrite(@)]

\* a call a handler makes on its ResponseWriter
WriteHeaderCall(code) == [op |-> "WriteHeader", code |-> code]

WriteCall == [op |-> "Write", code |-> 0]

\* next.ServeHTTP(rw, r) for a handler that makes the calls ops
RECURSIVE serveHTTP(_, _)
serveHTTP(rw, ops) ==
    IF ops = <<>> THEN rw
    ELSE serveHTTP(IF ops[1].op = "WriteHeader"
                   THEN rwWriteHeader(rw, ops[1].code)
                   ELSE rwWrite(rw),
                   Tail(ops))

\* the same for a handler given the server's ResponseWriter itself
RECURSIVE connServeHTTP(_, _)
connServeHTTP(c, ops) ==
    IF ops = <<>> THEN c
    ELSE connServeHTTP(IF ops[1].op = "WriteHeader"
                       THEN connWriteHeader(c, ops[1].code)
                       ELSE connWrite(c),
                       Tail(ops))

\* corsMiddleware that calls next for OPTIONS too
isPreflight_Never(method) == FALSE

\* corsMiddleware, `if r.Method == "OPTIONS"`
isPreflight(method) == method = "OPTIONS"

\* corsMiddleware()(next) serving r: the server's ResponseWriter at the end
\* of the request, and the number of calls of next
corsMiddleware(r, ops) ==
    LET h == setHeader(setHeader(setHeader(<<>>,
                 "Access-Control-Allow-Origin", "*"),
                 "Access-Control-Allow-Methods", "GET,HEAD"),
                 "Access-Control-Allow-Headers",
                 "Accept, Accept-Language, Content-Type, Origin, Accept-Encoding, Content-Language, X-Requested-With")
        w == [NewConn EXCEPT !.header = h]
    IN  IF isPreflight(r.method)
        THEN [w |-> finishRequest(connWriteHeader(w, StatusOK)), nextCalls |-> 0]
        ELSE [w |-> finishRequest(connServeHTTP(w, ops)), nextCalls |-> 1]

\* createLoggingMiddleware(logger)(next) serving r, next taking the time d:
\* the server's ResponseWriter at the end and the records logged; done says
\* whether next had returned when the record was logged
createLoggingMiddleware(r, ops, d) ==
    LET attrs == [method |-> r.method, path |-> r.path,
                  remote_addr |-> "", user_agent |-> ""]
        rw    == serveHTTP(newResponseWriter(NewConn), ops)
    IN  [w    |-> finishRequest(rw.ResponseWriter),
         logs |-> <<[msg |-> "Request started", done |-> FALSE, attrs |-> attrs],
                    [msg |-> "Request completed", done |-> TRUE,
                     attrs |-> [method |-> r.method, path |-> r.path,
                                remote_addr |-> "", user_agent |-> "",
                                status |-> rw.statusCode, duration |-> d]]>>]

\* createSlogLoggingMiddleware, from the call of next to logger.Info, for a
\* request that is not a stream request and without logIPs and logUserAgent
slogHandledRequest(r, ops, d) ==
    LET rw == serveHTTP(newResponseWriter(NewConn), ops)
    IN  [w    |-> finishRequest(rw.ResponseWriter),
         logs |-> <<[msg |-> "Handled request", done |-> TRUE,
                     attrs |-> [status |-> rw.statusCode, duration |-> d,
                                method |-> r.method, url |-> r.path]]>>]

\* strings.HasPrefix(path, "/" + word): a segment that begins with one of
\* the words the code looks for has it as its first token
hasPrefix(path, word) ==
    path # <<>> /\ path[1] # <<>> /\ path[1][1] = word

\* manifestRegex "^/.*/manifest.json$": any text between the first slash
\* and the last segment
manifestRegexMatches(path) ==
    Len(path) >= 2 /\ path[Len(path)] = <<"manifest.json">>

\* `^/.*/catalog/.*/.*\.json` and `^/.*/stream/.*/.*\.json`: a segment that
\* is the word, not the first one, then a slash, then ".json" in a later
\* segment
resourceRegexMatches(path, word) ==
    \E i \in 2..Len(path) :
        /\ path[i] = <<word>>
        /\ \E k \in (i + 2)..Len(path) :
              \E j \in 1..Len(path[k]) : path[k][j] = ".json"

\* createMetricsMiddleware: the endpoint label of a path
endpointOf(path) ==
    CASE path = <<>>                       -> "root"
      [] path = << <<"manifest.json">> >>  -> "manifest"
      [] path = << <<"configure">> >>      -> "configure"
      [] path = << <<"health">> >>         -> "health"
      [] path = << <<"metrics">> >>        -> "metrics"
      [] OTHER ->
            IF hasPrefix(path, "catalog") THEN "catalog"
            ELSE IF hasPrefix(path, "stream") THEN "stream"
            ELSE IF hasPrefix(path, "configure") THEN "configure-other"
            ELSE IF path[1] = <<"debug">> /\ Len(path) >= 2 /\ hasPrefix(Tail(path), "pprof")
            THEN "pprof"
            ELSE IF manifestRegexMatches(path) THEN "manifest-data"
            ELSE IF resourceRegexMatches(path, "catalog") THEN "catalog-data"
            ELSE IF resourceRegexMatches(path, "stream") THEN "stream-data"
            ELSE "other"

\* fmt.Sprintf(`http_requests_total{endpoint="%v", status="%v"}`, ...)
counterName(endpoint, status) == <<endpoint, status>>

\* metrics.GetOrCreateCounter(name): the set of counters after the call
GetOrCreateCounter(counters, name) ==
    IF name \in DOMAIN counters THEN counters
    ELSE [x \in DOMAIN counters \cup {name} |->
             IF x = name THEN 0 ELSE counters[x]]

\* counter.Add that stores n instead of adding it
counterAdd_Store(value, n) == n

\* counter.Add(n): an atomic addition
counterAdd(value, n) == value + n

\* createMetricsMiddleware up to the counter name, for one request
metricsObserved(r, ops) ==
    LET rw == serveHTTP(newResponseWriter(NewConn), ops)
    IN  [w    |-> finishRequest(rw.ResponseWriter),
         name |-> counterName(endpointOf(r.path), rw.statusCode)]

\* wg.Wait that does not wait
wgWait_NoWait(counter) == TRUE

\* wg.Wait() returns when the counter of the WaitGroup is 0
wgWait(counter) == counter = 0

(***************************************************************************)
(* The middlewares at work (specification SpecMiddleware).  mw holds the   *)
(* middleware that serves: corsMiddleware or a logging middleware for one  *)
(* request, createMetricsMiddleware for requests served at the same time,  *)
(* or createSlogMetaMiddleware and its goroutine.                          *)
(***************************************************************************)
MaxConcurrent == 2

HTTPMethods == {"GET", "HEAD", "OPTIONS", "POST"}

StatusCodes == {StatusOK, StatusNotModified, StatusNotFound, StatusInternalServerError}

\* what the handlers of the package do with their ResponseWriter: nothing,
\* the body alone (json Encode, w.Write), or WriteHeader once and first
\* (http.Error, the 304 and 204 replies, a status before the body)
Behaviours ==
    {<<>>, <<WriteCall>>}
        \cup {<<WriteHeaderCall(c)>> : c \in StatusCodes}
        \cup {<<WriteHeaderCall(c), WriteCall>> : c \in StatusCodes}

\* user data as the tokens of its text
MetricUserData == {<<"abc">>, <<"catalog", "s">>, <<"stream", "er">>, <<"configure", "1">>}

ManifestDataPath(ud) == <<ud, <<"manifest.json">> >>

CatalogDataPath(ud) == <<ud, <<"catalog">>, <<"movie">>, <<"top", ".json">> >>

StreamDataPath(ud) == <<ud, <<"stream">>, <<"movie">>, <<"tt1", ".json">> >>

MetricPaths ==
    {<<>>, << <<"manifest.json">> >>, << <<"configure">> >>, << <<"health">> >>,
     << <<"metrics">> >>, << <<"ping">> >>,
     << <<"catalog">>, <<"movie">>, <<"top", ".json">> >>,
     << <<"stream">>, <<"movie">>, <<"tt1", ".json">> >>,
     << <<"configure">>, <<"abc">> >>,
     << <<"debug">>, <<"pprof">>, <<"heap">> >>}
        \cup {ManifestDataPath(ud) : ud \in MetricUserData}
        \cup {CatalogDataPath(ud) : ud \in MetricUserData}
        \cup {StreamDataPath(ud) : ud \in MetricUserData}

MwRequests == [method : HTTPMethods, path : MetricPaths]

Elapsed == {0, 5}

Categories ==
    {"root", "manifest", "configure", "health", "metrics", "catalog", "stream",
     "configure-other", "pprof", "manifest-data", "catalog-data", "stream-data",
     "other"}

MwUnchanged ==
    UNCHANGED <<phase, args, addon, newErr, routes, cfg, req, ret, resp, prev, held, codec, proc>>

InitMiddleware ==
    /\ phase = "Unconfigured"
    /\ args = NoArgs
    /\ addon = NoAddon
    /\ newErr = <<>>
    /\ routes = <<>>
    /\ cfg = NoConfig
    /\ req = NoRequest
    /\ ret = NoRet
    /\ resp = NoResponse
    /\ prev = NoPrev
    /\ held = NoManifest
    /\ codec = NoCodec
    /\ proc = NoProcess
    /\ mw = NoMiddleware

\* a request served by corsMiddleware()(next)
CorsRequest ==
    /\ mw.kind = "none"
    /\ \E r \in MwRequests, ops \in Behaviours :
        mw' = [kind |-> "cors", r |-> r, ops |-> ops, out |-> corsMiddleware(r, ops)]
    /\ MwUnchanged

\* a request served by createLoggingMiddleware(logger)(next)
LoggingRequest ==
    /\ mw.kind = "none"
    /\ \E r \in MwRequests, ops \in Behaviours, d \in Elapsed :
        mw' = [kind |-> "logging", r |-> r, ops |-> ops, d |-> d,
               out |-> createLoggingMiddleware(r, ops, d)]
    /\ MwUnchanged

\* a request served by createSlogLoggingMiddleware(logger, ...)(next)
SlogRequest ==
    /\ mw.kind = "none"
    /\ \E r \in MwRequests, ops \in Behaviours, d \in Elapsed :
        mw' = [kind |-> "slog", r |-> r, ops |-> ops, d |-> d,
               out |-> slogHandledRequest(r, ops, d)]
    /\ MwUnchanged

\* the requests createMetricsMiddleware serves: any first one, and later
\* ones that repeat it or ask for /ping
LaterRequests(reqs) ==
    IF reqs = <<>> THEN [r : [method : {"GET"}, path : MetricPaths], ops : Behaviours]
    ELSE {[r |-> reqs[1].r, ops |-> reqs[1].ops],
          [r |-> [method |-> "GET", path |-> << <<"ping">> >>], ops |-> <<>>]}

\* a request enters createMetricsMiddleware()(next): next.ServeHTTP runs
MetricsArrive ==
    /\ mw.kind \in {"none", "metrics"}
    /\ LET reqs == IF mw.kind = "none" THEN <<>> ELSE mw.reqs
           counters == IF mw.kind = "none" THEN <<>> ELSE mw.counters
       IN  /\ Len(reqs) < MaxConcurrent
           /\ \E q \in LaterRequests(reqs) :
                mw' = [kind |-> "metrics", counters |-> counters,
                       reqs |-> Append(reqs,
                           [r |-> q.r, ops |-> q.ops, pc |-> "next",
                            overlapped |-> \E j \in 1..Len(reqs) : reqs[j].pc # "added",
                            w |-> NewConn, name |-> <<>>])]
    /\ MwUnchanged

\* next.ServeHTTP returns: the counter name is made
MetricsNextReturns ==
    /\ mw.kind = "metrics"
    /\ \E i \in 1..Len(mw.reqs) :
        /\ mw.reqs[i].pc = "next"
        /\ LET o == metricsObserved(mw.reqs[i].r, mw.reqs[i].ops)
           IN  mw' = [mw EXCEPT !.reqs[i].pc = "named", !.reqs[i].w = o.w,
                                !.reqs[i].name = o.name]
    /\ MwUnchanged

\* counter := metrics.GetOrCreateCounter(counterName)
MetricsGetCounter ==
    /\ mw.kind = "metrics"
    /\ \E i \in 1..Len(mw.reqs) :
        /\ mw.reqs[i].pc = "named"
        /\ mw' = [mw EXCEPT !.reqs[i].pc = "counter",
                            !.counters = GetOrCreateCounter(@, mw.reqs[i].name)]
    /\ MwUnchanged

\* counter.Add(1)
MetricsAdd ==
    /\ mw.kind = "metrics"
    /\ \E i \in 1..Len(mw.reqs) :
        /\ mw.reqs[i].pc = "counter"
        /\ mw' = [mw EXCEPT !.reqs[i].pc = "added",
                            !.counters[mw.reqs[i].name] = counterAdd(@, 1)]
    /\ MwUnchanged

\* a request enters createSlogMetaMiddleware(...)(next): the statements
\* before next.ServeHTTP of the branch taken
MetaEnter ==
    /\ mw.kind = "none"
    /\ \E put \in BOOLEAN, log \in BOOLEAN :
        mw' = [kind  |-> "meta", put |-> put, log |-> log, pc |-> "callNext",
               next  |-> "idle",
               fetch |-> IF put THEN "finished" ELSE IF log THEN "spawned" ELSE "none",
               wg    |-> IF ~put /\ log THEN 1 ELSE 0]
    /\ MwUnchanged

\* next.ServeHTTP(w, r) is called
MetaCallNext ==
    /\ mw.kind = "meta"
    /\ mw.pc = "callNext"
    /\ mw' = [mw EXCEPT !.pc = "inNext", !.next = "running"]
    /\ MwUnchanged

\* next.ServeHTTP(w, r) returns
MetaNextReturns ==
    /\ mw.kind = "meta"
    /\ mw.pc = "inNext"
    /\ mw' = [mw EXCEPT !.next = "finished",
                        !.pc = IF ~mw.put /\ mw.log THEN "wait" ELSE "returned"]
    /\ MwUnchanged

\* the goroutine starts: putMetaInContext(r, metaClient, logger)
MetaFetchStart ==
    /\ mw.kind = "meta"
    /\ mw.fetch = "spawned"
    /\ mw' = [mw EXCEPT !.fetch = "running"]
    /\ MwUnchanged

\* putMetaInContext returns in the goroutine; wg.Done()
MetaFetchDone ==
    /\ mw.kind = "meta"
    /\ mw.fetch = "running"
    /\ mw' = [mw EXCEPT !.fetch = "finished", !.wg = @ - 1]
    /\ MwUnchanged

\* wg.Wait() returns and the middleware with it
MetaWait ==
    /\ mw.kind = "meta"
    /\ mw.pc = "wait"
    /\ wgWait(mw.wg)
    /\ mw' = [mw EXCEPT !.pc = "returned"]
    /\ MwUnchanged

NextMiddleware ==
    \/ CorsRequest
    \/ LoggingRequest
    \/ SlogRequest
    \/ MetricsArrive
    \/ MetricsNextReturns
    \/ MetricsGetCounter
    \/ MetricsAdd
    \/ MetaEnter
    \/ MetaCallNext
    \/ MetaNextReturns
    \/ MetaFetchStart
    \/ MetaFetchDone
    \/ MetaWait

SpecMiddleware == InitMiddleware /\ [][NextMiddleware]_vars

(***************************************************************************)
(* Properties of the handlers (specification Spec).                        *)
(***************************************************************************)
\* the handler invoked the addon author's callback
Invoked == resp.calls # <<>>

CachedKinds == {"catalog", "stream"}

\* a Cache-Control value names the directive `public`
HasPublic(v) == \E i \in 1..Len(v) : v[i] = "public"

\* a Cache-Control value names the directive max-age=n
HasMaxAge(v, n) ==
    \E i \in 1..Len(v) :
        /\ v[i] = "max-age="
        /\ SubSeq(v, i + 1, Len(v)) = Itoa(n)

\* C1: whatever cacheAge, cachePublic and handleEtag the stream handler was
\* built with, when the callback registered for the requested type returns
\* the not-found sentinel (errors.Is(err, ErrNotFound)) the response has
\* status 404.
C1_StreamNotFoundIs404 ==
    (req.kind = "stream" /\ Invoked /\ errorsIs(ret.err, ErrNotFound))
        => resp.status = StatusNotFound

C1_Witness ==
    /\ req.kind = "stream"
    /\ Invoked
    /\ ret.err = ErrNotFound
    /\ cfg.cacheAge > 0 /\ cfg.cachePublic /\ cfg.handleEtag
    /\ resp.status = StatusNotFound

\* C3: a stream request that carries type and id as URL query parameters, on
\* a route without path wildcards (as /stream?type=movie&id=tt1254207 in
\* addon_test.go), is answered 200 with the callback's items when the
\* callback returns items, and 404 when it returns not-found.
C3_QueryParametersServed ==
    (/\ req.kind = "stream"
     /\ req.pv = NoPathValues
     /\ req.q.type \in cfg.handlers
     /\ req.q.id = <<"tt1">>
     /\ req.q.userData = <<>>
     /\ req.inm = <<>>)
        => /\ ret.err = <<>> =>
                /\ resp.status = StatusOK
                /\ resp.body = encodeEnvelope("stream", "\"streams\":", ret.items)
           /\ ret.err = ErrNotFound => resp.status = StatusNotFound

\* C4: for catalog, stream and subtitle alike, when the callback returns the
\* not-found sentinel the response has status 404 (not 500).
C4_NotFoundIs404 ==
    (/\ req.kind \in {"catalog", "stream", "subtitle"}
     /\ Invoked
     /\ ret.err = ErrNotFound)
        => resp.status = StatusNotFound

\* C5: when a catalog, stream, subtitle or configuration callback returns an
\* error that is not the not-found sentinel, the status is 500 and the
\* response (status, headers, body) is the one every other such error would
\* have produced for the same request: the error's text is not in it.
C5_ErrorTextNeverLeaks ==
    (Invoked /\ ret.err # <<>> /\ ~errorsIs(ret.err, ErrNotFound))
        => /\ resp.status = StatusInternalServerError
           /\ \A e \in Errors :
                ~errorsIs(e, ErrNotFound)
                    => Serve(cfg, req, [ret EXCEPT !.err = e]) = resp

C5_Witness ==
    /\ req.kind = "configure"
    /\ Invoked
    /\ ret.err = <<"db down">>
    /\ resp.status = StatusInternalServerError

\* C6: with handleEtag enabled, when the second of two catalog or stream
\* requests sends in If-None-Match the ETag of the first response and the
\* callback returns the same items as for the first, the second response is
\* 304 with an empty body and carries the same ETag as the first.
C6_RevalidationIs304 ==
    (/\ req.kind \in CachedKinds
     /\ cfg.handleEtag
     /\ prev.set
     /\ req.inm = prev.etag
     /\ Invoked /\ ret.err = <<>> /\ ret.items = prev.items)
        => /\ resp.status = StatusNotModified
           /\ resp.body = <<>>
           /\ resp.header["ETag"].set
           /\ HeaderGet(resp.header, "ETag") = prev.etag

C6_Witness ==
    /\ req.kind = "catalog"
    /\ cfg.handleEtag
    /\ prev.set /\ prev.status = StatusOK
    /\ req.inm = prev.etag
    /\ Invoked /\ ret.err = <<>> /\ ret.items = prev.items
    /\ ret.items.elems # <<>>
    /\ resp.status = StatusNotModified

C8_CacheControlDirectives ==
    (/\ req.kind \in CachedKinds
     /\ resp.status = StatusOK
     /\ cfg.cacheAge > 0)
        => /\ resp.header["Cache-Control"].set
           /\ HasMaxAge(HeaderGet(resp.header, "Cache-Control"), cfg.cacheAge)
           /\ HasPublic(HeaderGet(resp.header, "Cache-Control")) <=> cfg.cachePublic

\* C9: in the catalog and stream handlers, when cacheAge is 0 the response
\* carries neither Cache-Control nor ETag, whatever cachePublic and
\* handleEtag are.
C9_NoCacheHeadersAtAgeZero ==
    (req.kind \in CachedKinds /\ cfg.cacheAge = 0)
        => /\ ~resp.header["Cache-Control"].set
           /\ ~resp.header["ETag"].set

(***************************************************************************)
(* Properties of the addon (specification SpecAddon).                      *)
(***************************************************************************)
StreamPath(t, id) == << <<"stream">>, <<t>>, id >>

\* C2: GET /stream/{type}/{id}.json, sent to an addon that NewAddon accepted
\* and Run was called on, for a type whose registered callback returns items
\* without error, is answered 200 with the body {"streams": items}, the
\* items being those the callback returned, in its order, for the id without
\* its .json suffix.
C2_StreamRequestServed ==
    (/\ phase \in {"Panicked", "Serving"}
     /\ req # NoRequest
     /\ ~addon.manifest.BehaviorHints.ConfigurationRequired
     /\ \E t \in addon.streamHandlers.types :
            req.path = StreamPath(t, <<"tt1", ".json">>)
     /\ ret.err = <<>>)
        => /\ resp.status = StatusOK
           /\ resp.body = encodeEnvelope("stream", "\"streams\":", ret.items)
           /\ Len(resp.calls) = 1
           /\ resp.calls[1].id = <<"tt1">>

\* the configuration violations C10 lists
ConfigurationViolation(a) ==
    \/ a.manifest.ID = ""
    \/ a.manifest.Name = ""
    \/ a.manifest.Description = ""
    \/ a.manifest.Version = ""
    \/ (a.opts.CachePublicCatalogs /\ a.opts.CacheAgeCatalogs = 0)
    \/ (a.opts.CachePublicStreams /\ a.opts.CacheAgeStreams = 0)
    \/ (a.opts.HandleEtagCatalogs /\ a.opts.CacheAgeCatalogs = 0)
    \/ (a.opts.HandleEtagStreams /\ a.opts.CacheAgeStreams = 0)
    \/ (a.opts.DisableRequestLogging /\ (a.opts.LogIPs \/ a.opts.LogUserAgent))
    \/ (a.opts.Logger # "" /\ a.opts.LoggingLevel # "")
    \/ (a.manifest.BehaviorHints.ConfigurationRequired
        /\ ~a.manifest.BehaviorHints.Configurable)
    \/ (a.opts.MetaClient # "" /\ a.opts.CinemetaTimeout # 0)
    \/ (a.opts.MetaClient # "" /\ ~a.opts.LogMediaName /\ ~a.opts.PutMetaInContext)

\* C10: when NewAddon is called with arguments that have one of the listed
\* configuration violations it returns an error and a nil addon, and no
\* server is started: no route is ever registered.
C10_ViolationsRejected ==
    (phase # "Unconfigured" /\ ConfigurationViolation(args))
        => /\ newErr # <<>>
           /\ addon = NoAddon
           /\ phase = "Rejected"
           /\ routes = <<>>

C10_Witness ==
    /\ phase = "Rejected"
    /\ args.manifest = manifestOf({})
    /\ ~args.streamHandlers.nil
    /\ args.opts.CachePublicStreams
    /\ args.opts.CacheAgeStreams = 0
    /\ args.opts.CacheAgeCatalogs > 0
    /\ newErr = <<"Enabling public caching only makes sense when also setting a cache age">>
    /\ addon = NoAddon

\* a handler map that supplies no handler: nil or empty
NoHandlers(h) == h.nil \/ h.types = {}

\* the violations NewAddon checks that C10 does not list
OtherViolation(a) ==
    \/ (a.opts.DisableRequestLogging /\ a.opts.LogMediaName)
    \/ (a.opts.ConfigureHTMLfs # "" /\ ~a.manifest.BehaviorHints.Configurable)

\* C11: NewAddon returns an error whenever the catalog handler map and the
\* stream handler map are each nil or empty; it returns an addon and no
\* error when exactly one of the two maps is nil, the other holds a handler
\* and the manifest and options have no violation.
C11_HandlersRequired ==
    phase # "Unconfigured"
        => /\ (NoHandlers(args.catalogHandlers) /\ NoHandlers(args.streamHandlers))
                => (newErr # <<>> /\ addon = NoAddon)
           /\ (/\ args.catalogHandlers.nil # args.streamHandlers.nil
               /\ (args.catalogHandlers.types \cup args.streamHandlers.types) # {}
               /\ ~ConfigurationViolation(args)
               /\ ~OtherViolation(args))
                => (newErr = <<>> /\ addon # NoAddon)

(***************************************************************************)
(* Properties of the manifest handler (specification Spec).                *)
(***************************************************************************)
\* the request is GET /manifest.json: no user data in the path or the query
PlainManifestRequest ==
    req.kind = "manifest" /\ req.pv.userData = <<>> /\ req.q.userData = <<>>

\* the manifest a 200 response carries, decoded as a client decodes it
DecodedManifest == manifestOfJson(resp.body[1])

\* m as JSON tells it: a `resources` or `idPrefixes` list of length 0 is
\* left out of the document, so it reads back as nil
Canonical(m) ==
    [m EXCEPT !.ResourceItems = IF @.elems = <<>> THEN NilList ELSE @,
              !.IDprefixes = IF @.elems = <<>> THEN NilList ELSE @]

UserDataDecodes ==
    decodeUserData(userDataOf(req), cfg.userData.type, cfg.userData.isBase64).err = <<>>

\* C13: with a manifest callback registered, a manifest request (whose user
\* data decodes) invokes the callback; if it returns a status below 400 the
\* answer is 200 with the manifest, as the callback left it, as JSON; if it
\* returns 400 or more the answer has exactly that status and a body that is
\* only the error text.
C13_CallbackStatusDecides ==
    (req.kind = "manifest" /\ cfg.callback /\ UserDataDecodes)
        => /\ Invoked
           /\ ret.status < 400 =>
                /\ resp.status = StatusOK
                /\ HeaderGet(resp.header, "Content-Type") = <<"application/json">>
                /\ DecodedManifest = Canonical(held)
           /\ ret.status >= 400 =>
                /\ resp.status = ret.status
                /\ resp.body = <<"Manifest callback returned error", "\n">>

C13_Witness ==
    /\ req.kind = "manifest"
    /\ cfg.callback
    /\ Invoked
    /\ ret.status = 400
    /\ ret.change = "addCatalog"
    /\ resp.status = 400

\* C14: every manifest request starts from the manifest as configured,
\* whatever the callbacks of other requests did to the manifest they were
\* given: a 200 response carries the configured manifest with the changes of
\* its own callback and no others.
C14_ManifestNeverMutated ==
    (req.kind = "manifest" /\ resp.status = StatusOK)
        => DecodedManifest = Canonical(applyChange(cfg.manifest, ret.change))

\* C15: when the configured manifest has ConfigurationRequired true, the
\* manifest returned by /manifest.json has configurationRequired true and
\* the one returned by /{userData}/manifest.json has it false.
C15_ConfigurationRequiredByRoute ==
    (/\ req.kind = "manifest"
     /\ cfg.manifest.BehaviorHints.ConfigurationRequired
     /\ ~cfg.callback
     /\ req.q.userData = <<>>
     /\ resp.status = StatusOK)
        => DecodedManifest.BehaviorHints.ConfigurationRequired
               = (req.pv.userData = <<>>)

(***************************************************************************)
(* Properties of user data (specification Spec)                            *)
(***************************************************************************)
TakesUserData == req.kind \in {"manifest", "catalog", "stream", "configure"}

\* C16: the userData argument of the manifest callback and of the catalog,
\* stream and configuration handlers is a string, empty when the request
\* carries no user data, if no type is registered; otherwise it is a pointer
\* to an object of the registered type, and the nil pointer when the request
\* carries no user data.
C16_UserDataArgument ==
    (TakesUserData /\ Invoked)
        => LET u == resp.calls[1].userData
           IN  IF cfg.userData.type = ""
               THEN u.tag = "string" /\ (userDataOf(req) = <<>> => u = EmptyString)
               ELSE IF userDataOf(req) = <<>> THEN u = NilValue
               ELSE u.tag = "ptr"

\* C17 (specification SpecCodec): for every value of the registered type,
\* decoding the encoding of its JSON gives that value and no error, for
\* percent-encoded JSON and for base64url JSON, unpadded or with its full
\* padding of one or two '='.
C17_UserDataRoundTrip ==
    codec.stage = "decoded" => codec.err = <<>> /\ codec.val = PtrTo(codec.v)

\* the text is user data, and not what a client writes for any value of the
\* registered type
Base64Texts == UNION {Encodings(v, TRUE) : v \in UserValues}

PercentTexts == UNION {Encodings(v, FALSE) : v \in UserValues}

NotAnEncoding(data, isBase64) ==
    /\ data # <<>>
    /\ data \notin (IF isBase64 THEN Base64Texts ELSE PercentTexts)

\* C18: with a user-data type registered, a request whose user data cannot
\* be decoded (bad base64url or percent-encoding, or JSON that does not fit
\* the type) is answered 400 by the manifest, catalog, stream, subtitle and
\* /configure endpoints, and no callback or handler is invoked for it.
C18_UndecodableUserDataIs400 ==
    (/\ req # NoRequest
     /\ cfg.userData.type # ""
     /\ NotAnEncoding(userDataOf(req), cfg.userData.isBase64))
        => resp.status = StatusBadRequest /\ ~Invoked

C18_Witness ==
    /\ req.kind = "configure"
    /\ cfg.userData.type # ""
    /\ req.q.userData = BadJson
    /\ resp.status = StatusBadRequest
    /\ ~Invoked

(***************************************************************************)
(* Properties of request validation (specification Spec)                   *)
(***************************************************************************)
\* C19: a catalog or stream request with a missing type or id, or with a
\* type no handler is registered for, and a subtitle request with a missing
\* videoId, is answered 400 without any handler callback being invoked; and
\* no request has a handler callback invoked more than once.
C19_InvalidRequestIs400 ==
    /\ (/\ req.kind \in {"catalog", "stream"}
        /\ \/ req.pv.type = ""
           \/ req.pv.id = <<>>
           \/ req.pv.type \notin cfg.handlers)
            => resp.status = StatusBadRequest /\ ~Invoked
    /\ (req.kind = "subtitle" /\ req.q.videoId = <<>>)
            => resp.status = StatusBadRequest /\ ~Invoked
    /\ Len(resp.calls) <= 1

C19_Witness ==
    /\ req.kind = "catalog"
    /\ req.pv.type = "movie"
    /\ req.pv.id = <<>>
    /\ UserDataDecodes
    /\ resp.status = StatusBadRequest
    /\ ~Invoked

(***************************************************************************)
(* Properties of the server with required configuration (specification     *)
(* SpecAddon)                                                              *)
(***************************************************************************)
\* the request is GET /{kind}/movie/tt1.json, with the user data before it
\* if any, of an addon that has a handler of that kind for movies
ResourceRequest(userData) ==
    /\ req # NoRequest
    /\ \E kind \in {"catalog", "stream"} :
        /\ req.path = userData \o << <<kind>>, <<"movie">>, <<"tt1", ".json">> >>
        /\ LET h == IF kind = "catalog" THEN addon.catalogHandlers
                    ELSE addon.streamHandlers
           IN  ~h.nil /\ "movie" \in h.types

\* C20: in the server Run assembles for a manifest with ConfigurationRequired
\* true, a catalog or stream request without a user-data segment
\* (GET /stream/movie/tt1.json) is answered 400, and the same request with a
\* user-data segment (GET /abc/stream/movie/tt1.json) is dispatched to the
\* registered handler.
C20_ConfigurationRequiredRouting ==
    (/\ phase \in {"Panicked", "Serving"}
     /\ addon.manifest.BehaviorHints.ConfigurationRequired)
        => /\ ResourceRequest(<<>>) => resp.status = StatusBadRequest /\ ~Invoked
           /\ ResourceRequest(<< <<"abc">> >>)
                => /\ Len(resp.calls) = 1
                   /\ resp.calls[1].id = <<"tt1">>

(***************************************************************************)
(* Properties of the subtitle handler (specification Spec)                 *)
(***************************************************************************)
\* C30: a successful subtitle response goes through the cache and ETag
\* handling of catalog and stream responses: with ETag handling enabled it
\* carries an ETag header, and a subtitle request whose If-None-Match is that
\* ETag is answered 304 with no body.
C30_SubtitleETag ==
    (/\ req.kind = "subtitle"
     /\ cfg.handleEtag
     /\ cfg.cacheAge > 0
     /\ Invoked
     /\ ret.err = <<>>)
        => /\ resp.header["ETag"].set
           /\ req.inm = HeaderGet(resp.header, "ETag")
                => resp.status = StatusNotModified /\ resp.body = <<>>

(***************************************************************************)
(* Properties of the metadata middleware (specification Spec)              *)
(***************************************************************************)
\* the MetaFetcher was called for the request
Fetched == resp.fetches # <<>>

\* C23: with metadata enrichment enabled, when GetMovie or GetTVShow returns
\* an error for a stream request, enrichment is skipped and the request is
\* passed on to the next handler: the fetch error produces no error
\* response.
C23_FetchErrorTolerated ==
    (req.kind = "meta" /\ Fetched /\ ret.fetchErr # <<>>)
        => /\ Len(resp.next) = 1
           /\ ~resp.next[1].ctx.hasMeta
           /\ resp.status # StatusInternalServerError

\* C24: with PutMetaInContext enabled, when the fetch for a stream request
\* succeeds, the stream handler registered for the requested type is
\* invoked, after the fetch, with a context that holds the fetched meta
\* under "meta".
C24_MetaInHandlerContext ==
    (/\ req.kind = "meta"
     /\ cfg.putMetaInContext
     /\ req.pv.type \in cfg.handlers
     /\ Fetched
     /\ ret.fetchErr = <<>>)
        => /\ Len(resp.next) = 1
           /\ resp.next[1].handler = "stream"
           /\ resp.next[1].ctx.hasMeta
           /\ resp.next[1].ctx.meta = ret.meta

\* C25: with LogMediaName enabled, the log record of a stream request whose
\* metadata fetch succeeded has the resolved media name of the item, not
\* the placeholder "?" and not no media name.
C25_MediaNameLogged ==
    (/\ req.kind = "logged"
     /\ cfg.logMediaName
     /\ Fetched
     /\ ret.fetchErr = <<>>)
        => \E i \in 1..Len(resp.logs) :
              /\ resp.logs[i].msg = "Handled request"
              /\ resp.logs[i].hasMediaName
              /\ resp.logs[i].mediaName # <<"?">>
              /\ resp.logs[i].mediaName[1] = ret.meta.Name

(***************************************************************************)
(* Properties of the server Run assembles and of its shutdown              *)
(* (specification SpecRun).                                                *)
(***************************************************************************)
\* the request asks for a stream: .../stream/{type}/{id}.json
IsStreamPath(path) == Len(path) >= 3 /\ path[Len(path) - 2] = <<"stream">>

\* the id of a stream path: its last segment without ".json"
streamIdOf(path) == <<path[Len(path)][1]>>

\* C21: with Options.StreamIDregex set, the server answers 400 to every
\* stream request whose id does not match the pattern, without invoking the
\* stream handler, and dispatches the stream requests whose id matches.
C21_StreamIDFilter ==
    (/\ req.kind = "run"
     /\ req.method = "GET"
     /\ IsStreamPath(req.path)
     /\ addon.opts.StreamIDregex = TTRegex)
        => IF MatchString(addon.opts.StreamIDregex, streamIdOf(req.path))
           THEN resp.route = "stream"
           ELSE resp.status = StatusBadRequest /\ ~Invoked

\* the paths of the routes the addon has whatever its options, and of its
\* custom endpoint
OwnPaths(a) ==
    {PathHealth, PathManifest}
    \cup (IF a.customEndpoints # <<>> THEN {PathPing} ELSE {})

\* the method the route of an own path is for
ownMethod(a, path) ==
    IF path = PathPing THEN a.customEndpoints[1].method ELSE "GET"

\* C22: a built-in route is dispatched for GET only and a custom endpoint
\* only for the method given to AddEndpoint: the route is registered for
\* that method, a request with it reaches the route's handler, and a
\* request with another method does not.
C22_MethodsRespected ==
    (req.kind = "run" /\ req.path \in OwnPaths(addon))
        => /\ \A i \in 1..Len(routes) :
                patternMatches(routes[i].pattern, req.path)
                    => routes[i].method = ownMethod(addon, req.path)
           /\ req.method = ownMethod(addon, req.path) => resp.route # ""
           /\ req.method # ownMethod(addon, req.path) => resp.route = ""

\* the stages of the documented order, with and without the enrichment
Stages(enriched) ==
    <<"cors", "gate">> \o (IF enriched THEN <<"meta">> ELSE <<>>)
    \o <<"dispatch", "metrics", "logging">>

\* C26: every request to the server Run starts passes the stages CORS,
\* route/configuration gate, optional metadata enrichment, terminal
\* dispatch, metrics, logging, in that order.
C26_StageOrder ==
    req.kind = "run" => resp.stages \in {Stages(TRUE), Stages(FALSE)}

\* the positions of e in the sequence of events
At(events, e) == {i \in 1..Len(events) : events[i] = e}

\* C27: with a stopping channel, a termination signal is followed by
\* exactly one notification on the channel, sent after the signal was
\* received and before the shutdown of the server begins; without a signal
\* no notification is sent.
C27_OneNotification ==
    LET sent == At(proc.events, "stoppingChan <- true")
    IN  /\ (~proc.stoppingChan.nil /\ proc.signals > 0)
               => /\ Cardinality(sent) = 1
                  /\ \A i \in sent :
                        /\ \E j \in At(proc.events, "sig := <-c") : j < i
                        /\ \A j \in At(proc.events, "server.Shutdown") : i < j
        /\ proc.signals = 0 => sent = {}

\* C28: with a stopping channel of capacity 1 or more, Run goes on to shut
\* the server down after a termination signal, whatever the channel holds
\* and whether or not the caller receives from it; a channel of capacity 0
\* ends Run before any route is set up.
C28_SendNeverBlocks ==
    /\ (~proc.stoppingChan.nil /\ proc.stoppingChan.cap >= 1 /\ proc.signals > 0)
           => At(proc.events, "server.Shutdown") # {}
    /\ (~proc.stoppingChan.nil /\ proc.stoppingChan.cap = 0 /\ phase # "Validated")
           => phase = "Exited" /\ routes = <<>>

\* C29: after a termination signal Run ends, by returning or by exiting the
\* process, having given the requests in flight the grace period of the
\* shutdown and no more, even if some of them never complete.
C29_StopsAfterGracePeriod ==
    proc.signals > 0
        => /\ phase \in {"Stopped", "Exited"}
           /\ At(proc.events, "server.Shutdown") # {}

(***************************************************************************)
(* Further properties of the handlers (specification Spec).                *)
(***************************************************************************)
\* C39: no catalog, stream or subtitle response with a status of 400 or
\* more carries a Cache-Control or an ETag header, whatever the cache
\* configuration and the request headers.
C39_NoCacheHeadersOnErrors ==
    (req.kind \in {"catalog", "stream", "subtitle"} /\ resp.status >= StatusBadRequest)
        => /\ ~resp.header["Cache-Control"].set
           /\ ~resp.header["ETag"].set

C39_Witness ==
    /\ req.kind = "subtitle"
    /\ cfg.cacheAge > 0 /\ cfg.cachePublic /\ cfg.handleEtag
    /\ req.inm = StaleTag
    /\ Invoked
    /\ resp.status = StatusInternalServerError
    /\ ~resp.header["Cache-Control"].set

(***************************************************************************)
(* Further properties of the addon (specification SpecAddon).              *)
(***************************************************************************)
\* the kinds of handler Run creates for the addon
CreatedKinds(a) ==
    (IF a.catalogHandlers.nil THEN {} ELSE {"catalog"})
    \cup (IF a.streamHandlers.nil THEN {} ELSE {"stream"})

\* C37: for every addon NewAddon accepts, no catalog or stream handler Run
\* creates has cachePublic or handleEtag enabled with a cache age of 0
\* seconds, whatever cache-age duration was accepted, durations between 0
\* and one second included.
C37_CacheFlagsNeedCacheAge ==
    phase \in {"Panicked", "Serving"}
        => \A kind \in CreatedKinds(addon) :
              LET c == handlerConfig(addon, kind)
              IN  (c.cachePublic \/ c.handleEtag) => c.cacheAge > 0

(***************************************************************************)
(* Further properties of Run (specification SpecRun).                      *)
(***************************************************************************)
\* the phases of the model that are states of the documented lifecycle:
\* Unconfigured; Validated (Run's setup under way included); Routed and
\* Serving; Draining (the shutdown after a signal, waiting to notify
\* included); Stopped (Run returned or ended the process itself)
LifecyclePhases ==
    {"Unconfigured", "Rejected", "Validated", "Registering", "Serving",
     "Blocked", "Stopped", "Exited"}

\* C36: the lifecycle only moves forward through Unconfigured, Validated,
\* Routed, Serving, Draining, Stopped: a rejected addon gets no routes, a
\* configuration check that ends Run does so before any route is
\* registered, the server listens only with all routes registered, and the
\* shutdown begins only after a termination signal.
C36_LifecycleForward ==
    /\ phase \in LifecyclePhases
    /\ addon.nil => routes = <<>>
    /\ (phase = "Exited" /\ proc.signals = 0) => routes = <<>>
    /\ phase = "Serving" => Len(routes) = Len(runRegistrations(addon))
    /\ At(proc.events, "server.Shutdown") # {} => proc.signals > 0

\* the arguments Run gives createCatalogHandler and createStreamHandler for
\* the user data: those of the addon when Run is called
finalUserData(a) == handlerConfig(a, "stream").userData

\* C38: the behaviour of the endpoints does not depend on the order of the
\* setup calls made before Run: the subtitle endpoint decodes user data
\* into the type registered with RegisterUserData whether that call came
\* before or after AddSubtitleHandler, as the catalog and stream endpoints
\* do, so it answers every request as a subtitle handler built when Run is
\* called would.
C38_SetupOrderIrrelevant ==
    phase # "Validated"
        => \A i \in subtitleEndpoints(addon) :
              LET built == addon.customEndpoints[i].built
              IN  \A t \in Targets("subtitle") :
                     Serve(built, t, NoRet)
                        = Serve([built EXCEPT !.userData = finalUserData(addon)], t, NoRet)

(***************************************************************************)
(* Properties of the middlewares (specification SpecMiddleware)            *)
(***************************************************************************)
CorsHeaderNames ==
    {"Access-Control-Allow-Origin", "Access-Control-Allow-Methods",
     "Access-Control-Allow-Headers"}

\* C35: corsMiddleware answers every OPTIONS request with 200 and the CORS
\* headers without calling the next handler; for every other method the
\* CORS headers are in the response and the next handler is called exactly
\* once.
C35_CorsShortCircuitsOptions ==
    mw.kind = "cors"
        => /\ CorsHeaderNames \subseteq DOMAIN mw.out.w.sent
           /\ mw.out.w.sent["Access-Control-Allow-Origin"] = "*"
           /\ mw.out.w.sent["Access-Control-Allow-Methods"] = "GET,HEAD"
           /\ mw.r.method = "OPTIONS"
                 => mw.out.w.status = StatusOK /\ mw.out.nextCalls = 0
           /\ mw.r.method # "OPTIONS" => mw.out.nextCalls = 1

C35_Witness ==
    /\ mw.kind = "cors"
    /\ mw.r.method = "OPTIONS"
    /\ mw.ops = <<WriteHeaderCall(StatusInternalServerError)>>
    /\ mw.out.w.status = StatusOK
    /\ mw.out.nextCalls = 0

\* the status the middleware in mw recorded for the request numbered i, and
\* the status the client was sent
recordedStatus(i) ==
    CASE mw.kind = "logging" -> mw.out.logs[Len(mw.out.logs)].attrs.status
      [] mw.kind = "slog"    -> mw.out.logs[Len(mw.out.logs)].attrs.status
      [] mw.kind = "metrics" -> mw.reqs[i].name[2]

sentStatus(i) ==
    IF mw.kind = "metrics" THEN mw.reqs[i].w.status ELSE mw.out.w.status

Observed ==
    CASE mw.kind \in {"logging", "slog"} -> {1}
      [] mw.kind = "metrics" -> {i \in 1..Len(mw.reqs) : mw.reqs[i].pc # "next"}
      [] OTHER -> {}

\* C32: the status the logging middlewares log and the metrics middleware
\* counts is the status sent to the client: the code the handler gave to
\* WriteHeader (304, 4xx and 5xx included), or 200 when the handler wrote
\* its response without WriteHeader.
C32_RecordedStatusIsSent ==
    \A i \in Observed :
        /\ recordedStatus(i) = sentStatus(i)
        /\ LET ops == IF mw.kind = "metrics" THEN mw.reqs[i].ops ELSE mw.ops
           IN  sentStatus(i) = IF ops # <<>> /\ ops[1].op = "WriteHeader"
                               THEN ops[1].code
                               ELSE StatusOK

C32_Witness ==
    /\ mw.kind = "slog"
    /\ mw.ops = <<WriteHeaderCall(StatusNotModified)>>
    /\ mw.out.logs[1].attrs.status = StatusNotModified
    /\ mw.out.w.status = StatusNotModified

\* C33: a request through a request-logging middleware leaves exactly one
\* log record, logged after the wrapped handler returned, that carries the
\* method, the path (or the URL with it), the final status and the duration.
C33_OneRecordPerRequest ==
    mw.kind \in {"logging", "slog"}
        => /\ Len(mw.out.logs) = 1
           /\ mw.out.logs[1].done
           /\ LET attrs == mw.out.logs[1].attrs
              IN  /\ {"method", "status", "duration"} \subseteq DOMAIN attrs
                  /\ attrs.method = mw.r.method
                  /\ \/ "path" \in DOMAIN attrs /\ attrs.path = mw.r.path
                     \/ "url" \in DOMAIN attrs /\ attrs.url = mw.r.path
                  /\ attrs.status = mw.out.w.status
                  /\ attrs.duration = mw.d

\* the requests the metrics middleware has counted under a counter name
Counted(name) ==
    {i \in 1..Len(mw.reqs) : mw.reqs[i].pc = "added" /\ mw.reqs[i].name = name}

\* C34: every request through the metrics middleware adds exactly 1 to
\* exactly one counter, the one named by its endpoint category and its final
\* status; every path has one of the defined categories, "other" if no
\* other; requests with the same key served at the same time each add
\* their 1.
C34_OneIncrementPerRequest ==
    mw.kind = "metrics"
        => /\ \A name \in DOMAIN mw.counters :
                 mw.counters[name] = Cardinality(Counted(name))
           /\ \A i \in 1..Len(mw.reqs) :
                 /\ mw.reqs[i].pc = "added" => mw.reqs[i].name \in DOMAIN mw.counters
                 /\ mw.reqs[i].pc # "next"
                       => /\ mw.reqs[i].name[1] \in Categories
                          /\ mw.reqs[i].name[1] = endpointOf(mw.reqs[i].r.path)
                          /\ mw.reqs[i].name[2] = mw.reqs[i].w.status

C34_Witness ==
    /\ mw.kind = "metrics"
    /\ Len(mw.reqs) >= 2
    /\ mw.reqs[1].pc = "added"
    /\ mw.reqs[2].pc = "added"
    /\ mw.reqs[2].overlapped
    /\ mw.reqs[1].name = mw.reqs[2].name
    /\ mw.reqs[1].name = counterName("other", StatusOK)
    /\ mw.counters[mw.reqs[1].name] = 2

\* C40: the category the metrics middleware counts a request under depends
\* on the resource alone: /{userData}/manifest.json is manifest-data,
\* /{userData}/catalog/{type}/{id}.json catalog-data and
\* /{userData}/stream/{type}/{id}.json stream-data for every user data,
\* also one that begins with "catalog", "stream" or "configure".
C40_CategoryIgnoresUserData ==
    mw.kind = "metrics"
        => \A i \in 1..Len(mw.reqs) :
              mw.reqs[i].pc # "next"
                 => \A ud \in MetricUserData :
                       /\ mw.reqs[i].r.path = ManifestDataPath(ud)
                             => mw.reqs[i].name[1] = "manifest-data"
                       /\ mw.reqs[i].r.path = CatalogDataPath(ud)
                             => mw.reqs[i].name[1] = "catalog-data"
                       /\ mw.reqs[i].r.path = StreamDataPath(ud)
                             => mw.reqs[i].name[1] = "stream-data"

\* C31: in createSlogMetaMiddleware with logMediaName on and
\* putMetaInHandlerContext off the fetch of the meta runs in a goroutine
\* beside the next handler: the call of the next handler never waits for the
\* fetch, and the middleware returns only when the next handler and the
\* fetch have both finished.
C31_FetchBesideNextHandler ==
    (mw.kind = "meta" /\ mw.log /\ ~mw.put)
        => /\ mw.pc = "callNext" => ENABLED MetaCallNext
           /\ mw.next = "idle" => mw.pc = "callNext"
           /\ mw.pc = "returned" => mw.next = "finished" /\ mw.fetch = "finished"

C31_Witness ==
    /\ mw.kind = "meta"
    /\ mw.log
    /\ ~mw.put
    /\ mw.next = "finished"
    /\ mw.fetch = "spawned"
    /\ mw.pc = "wait"
====
